---------------------------- MODULE Spec2Model ----------------------------
(***************************************************************************)
(* RDMA userspace connection manager access (drivers/infiniband/core/      *)
(* ucma.c): contexts, multicast groups, per-file event queues, the         *)
(* deferred-close workqueue and cross-file migration, as a state machine   *)
(* of interleaved client commands, engine callbacks and workqueue items.   *)
(***************************************************************************)
EXTENDS Integers, Sequences, FiniteSets, TLC

(* ------------------------------ bounds -------------------------------- *)
MaxCtx == 3
MaxCm == 3
MaxMc == 2
MaxEvents == 4

(* ------------------------- program constants -------------------------- *)
max_backlog == 1024
OK == "OK"
ENOENT == "ENOENT"
EIO == "EIO"
ENXIO == "ENXIO"
EAGAIN == "EAGAIN"
ENOMEM == "ENOMEM"
EFAULT == "EFAULT"
ENOSPC == "ENOSPC"
EINVAL == "EINVAL"
ENOSYS == "ENOSYS"
ERESTARTSYS == "ERESTARTSYS"

(* the masks of ucma_poll *)
EPOLLIN == "EPOLLIN | EPOLLRDNORM"
NoMask == "0"

(* refcount_t saturates instead of wrapping: one value stands for it *)
REFCOUNT_SATURATED == -1

Files == {1, 2}
CtxPtr == 1..MaxCtx
CtxId == 0..(MaxCtx - 1)
McPtr == 1..MaxMc
McId == 0..(MaxMc - 1)
CmId == 1..MaxCm
EvPtr == 1..MaxEvents

Clients == {1, 2, 3, 4}
Handlers == {11, 12}
WorkerOf(f) == 20 + f
Workers == {WorkerOf(f) : f \in Files}
Threads == Clients \cup Handlers \cup Workers

VARIABLES
    ctx,    \* struct ucma_context objects, by pointer
    xa,     \* ctx_table: id -> pointer (0: no entry)
    mc,     \* struct ucma_multicast objects, by pointer
    mxa,    \* multicast_table: id -> [used, ptr]
    file,   \* struct ucma_file objects
    ev,     \* struct ucma_event objects, by pointer
    cm,     \* the engine's rdma_cm_id objects
    thr,    \* every thread of execution: position and locals
    gh      \* history the claims speak about (no effect on the program)

vars == <<ctx, xa, mc, mxa, file, ev, cm, thr, gh>>

(* ------------------------------ helpers ------------------------------- *)
RECURSIVE SelectSeqBy(_, _)
SelectSeqBy(s, S) ==
    IF s = <<>> THEN <<>>
    ELSE IF Head(s) \in S THEN <<Head(s)>> \o SelectSeqBy(Tail(s), S)
         ELSE SelectSeqBy(Tail(s), S)

Range(s) == {s[i] : i \in 1..Len(s)}

Min(S) == CHOOSE x \in S : \A y \in S : x <= y

(* a command: the file written to, two arguments, whether the user buffer of
   the response faults, whether the engine call of the command fails, whether
   a signal reaches the caller while it sleeps *)
NoOp == [op |-> "none", f |-> 0, a |-> 0, b |-> 0, fault |-> FALSE,
         fail |-> FALSE, sig |-> FALSE]

Cmd(o, f, a, b, flt) ==
    [op |-> o, f |-> f, a |-> a, b |-> b, fault |-> flt, fail |-> FALSE,
     sig |-> FALSE]

CmdEngineFails(o, f, a, b) ==
    [op |-> o, f |-> f, a |-> a, b |-> b, fault |-> FALSE, fail |-> TRUE,
     sig |-> FALSE]

CmdSignalled(o, f, a, b) ==
    [op |-> o, f |-> f, a |-> a, b |-> b, fault |-> FALSE, fail |-> FALSE,
     sig |-> TRUE]

ThreadInit(p) ==
    [pc |-> "idle", op |-> NoOp, prog |-> p, c |-> 0, m |-> 0, x |-> 0,
     lk |-> 0, tgt |-> 0, cont |-> "", ret |-> OK, er |-> 0, lst |-> <<>>,
     tmp |-> 0]

CtxInit ==
    [st |-> "none", id |-> -1, ref |-> 0, done |-> 0, events_reported |-> 0,
     backlog |-> 0, file |-> 0, cm_id |-> 0, mutex |-> 0, uid |-> 0,
     mc_list |-> <<>>, closing |-> 0, destroying |-> 0,
     frees |-> 0, delivered |-> 0, listenN |-> 0]

McInit ==
    [st |-> "none", id |-> -1, ctx |-> 0, events_reported |-> 0, uid |-> 0,
     joined |-> FALSE, frees |-> 0, delivered |-> 0]

FileInit ==
    [st |-> "open", mut |-> 0, ctx_list |-> <<>>, event_list |-> <<>>,
     wq |-> <<>>, wdone |-> 0]

EvInit ==
    [st |-> "none", ctx |-> 0, mc |-> 0, cm_id |-> 0, kind |-> "", stamp |-> 0,
     out |-> ""]

CmInit ==
    [st |-> "none", context |-> 0, hnd |-> 0, destroys |-> 0, removed |-> FALSE,
     listening |-> FALSE, dev |-> FALSE, parent |-> 0]

GhInit ==
    [clock |-> 0, lastRead |-> [f \in Files |-> 0], ooo |-> FALSE,
     torn |-> {}, lost |-> {}, unlocked |-> FALSE, wrongunlock |-> FALSE,
     uaf |-> FALSE]

(* refcount_inc / refcount_dec_and_test on a refcount_t: 0 and below saturate *)
RefInc(r) == IF r <= 0 THEN REFCOUNT_SATURATED ELSE r + 1
RefDec(r) == IF r <= 0 THEN REFCOUNT_SATURATED ELSE r - 1

(* xa_alloc: the lowest free index of the table *)
FreeCtxIds == {i \in CtxId : xa[i] = 0}
FreeCtxPtrs == {p \in CtxPtr : ctx[p].st = "none"}
FreeCmIds == {x \in CmId : cm[x].st = "none"}
FreeEvPtrs == {e \in EvPtr : ev[e].st = "none"}
FreeMcIds == {i \in McId : ~mxa[i].used}
FreeMcPtrs == {p \in McPtr : mc[p].st = "none"}

SetThr(t, r) == thr' = [thr EXCEPT ![t] = r]
Goto(t, l) == thr' = [thr EXCEPT ![t].pc = l]
Finish(t, r) == [thr[t] EXCEPT !.pc = "idle", !.ret = r, !.op = NoOp]

Pc(t) == thr[t].pc

(* struct mutex: mutex_lock blocks while it is held *)
MutFree(f) == file[f].mut = 0

(* a lookup that does not compare ctx->file with the caller's file: C12
   depends on the owner test *)
_ucma_find_context_AnyFile(id, f) ==
    IF id \notin CtxId \/ xa[id] = 0 THEN ENOENT
    ELSE IF ctx[xa[id]].cm_id = 0 THEN EINVAL
    ELSE OK

(* _ucma_find_context: the context or a negative errno *)
_ucma_find_context(id, f) ==
    IF id \notin CtxId \/ xa[id] = 0 THEN ENOENT
    ELSE IF ctx[xa[id]].file # f \/ ctx[xa[id]].cm_id = 0 THEN EINVAL
    ELSE OK

(* a lookup that does not test ctx->closing: C13 depends on the test *)
ucma_get_ctx_IgnoresClosing(id, f) == _ucma_find_context(id, f)

(* ucma_get_ctx: the errno of the lookup, EIO for a closing context *)
ucma_get_ctx(id, f) ==
    IF _ucma_find_context(id, f) # OK THEN _ucma_find_context(id, f)
    ELSE IF ctx[xa[id]].closing = 1 THEN EIO
    ELSE OK

(* ucma_put_ctx: drop one reference, complete(&ctx->comp) on the last *)
ucma_put_ctx(cx, c) ==
    [cx EXCEPT ![c].ref = RefDec(@),
               ![c].done = IF cx[c].ref = 1 THEN @ + 1 ELSE @]

(* ------------------ mutex_lock(&ctx->file->mut) ----------------------- *)
(* ctx->file is read before mutex_lock and again by everything after it,   *)
(* so a thread that slept on the mutex while ucma_migrate_id changed       *)
(* ctx->file holds the old file's mutex and works on the new file.         *)
LockedFile(t, c) == IF thr[t].lk # 0 THEN thr[t].lk ELSE ctx[c].file

CanLock(t, c) == MutFree(LockedFile(t, c))

Stale(t, c) == LockedFile(t, c) # ctx[c].file

(* the file mutexes after lock; body; unlock of ctx->file->mut by t *)
MutAfterCS(fl, t, c) ==
    IF Stale(t, c)
    THEN [fl EXCEPT ![LockedFile(t, c)].mut = t, ![ctx[c].file].mut = 0]
    ELSE fl

CsPcs ==
    {"event_handler", "destroy_mark", "free_mc", "free_events", "leave_cs"}

(* the thread sleeps in mutex_lock on the file it read from ctx->file while
   the ucma_migrate_id that holds that mutex is about to change ctx->file *)
mutex_lock_sleep(t) ==
    /\ Pc(t) \in CsPcs
    /\ thr[t].lk = 0
    /\ thr[t].c # 0
    /\ \E m \in Clients :
         /\ file[ctx[thr[t].c].file].mut = m
         /\ Pc(m) = "migrate_move"
         /\ thr[m].c = thr[t].c
    /\ thr' = [thr EXCEPT ![t].lk = ctx[thr[t].c].file]
    /\ UNCHANGED <<ctx, xa, mc, mxa, file, ev, cm, gh>>

(* --------------------------- ucma_write ------------------------------- *)
Entry(o) ==
    CASE o = "create_id" -> "create_id"
      [] o = "destroy_id" -> "destroy_id"
      [] o = "listen" -> "cmd_get"
      [] o = "bind" -> "cmd_get"
      [] o = "get_event" -> "get_event"
      [] o = "join" -> "join_get"
      [] o = "leave" -> "leave_find"
      [] o = "migrate_id" -> "migrate_get"
      [] OTHER -> "idle"

CmdOps ==
    {"create_id", "destroy_id", "listen", "bind", "get_event", "join", "leave",
     "migrate_id"}

(* ucma_cmd_table, in the order of its initialisers (hdr.cmd 0 .. 22): the
   handlers of the commands modelled here carry the command's name, the slot
   of RDMA_USER_CM_CMD_GET_OPTION is NULL *)
NULL == "NULL"

ucma_cmd_table ==
    <<"create_id", "destroy_id", "bind", "resolve_ip", "resolve_route",
      "query_route", "connect", "listen", "accept", "reject", "disconnect",
      "init_qp_attr", "get_event", NULL, "set_option", "notify",
      "join_ip_mcast", "leave", "migrate_id", "query", "bind_addr",
      "resolve_addr", "join">>

(* ARRAY_SIZE(ucma_cmd_table) *)
ARRAY_SIZE == Len(ucma_cmd_table)

(* hdr.cmd of a command of a program; a "write" entry gives hdr.cmd itself
   in a, and in b whether hdr.in + sizeof(hdr) exceeds len *)
OpCode(w) ==
    IF w.op = "write" THEN w.a
    ELSE (CHOOSE i \in 1..ARRAY_SIZE : ucma_cmd_table[i] = w.op) - 1

TooShort(w) == w.op = "write" /\ w.b = 1

(* header checks that answer -ENOSYS to a hdr.cmd past the table as well:
   C14 depends on the -EINVAL of the range test *)
WriteCheck_RangeENOSYS(w) ==
    IF OpCode(w) >= ARRAY_SIZE THEN ENOSYS
    ELSE IF TooShort(w) THEN EINVAL
    ELSE IF ucma_cmd_table[OpCode(w) + 1] = NULL THEN ENOSYS
    ELSE OK

(* the errno of ucma_write before any handler runs, OK when one runs *)
WriteCheck(w) ==
    IF OpCode(w) >= ARRAY_SIZE THEN EINVAL
    ELSE IF TooShort(w) THEN EINVAL
    ELSE IF ucma_cmd_table[OpCode(w) + 1] = NULL THEN ENOSYS
    ELSE OK

(* the command the handler sees *)
Dispatched(w) ==
    IF w.op = "write"
    THEN [w EXCEPT !.op = ucma_cmd_table[OpCode(w) + 1], !.a = 0, !.b = 0]
    ELSE w

(* a write() of one command on an open file: the header checks, then the
   table's handler *)
ucma_write(t) ==
    /\ t \in Clients
    /\ Pc(t) = "idle"
    /\ thr[t].prog # <<>>
    /\ LET w == Head(thr[t].prog) IN
       /\ w.op \in CmdOps \cup {"write"}
       /\ file[w.f].st = "open"
       /\ IF WriteCheck(w) # OK
          THEN thr' = [thr EXCEPT ![t] =
                         [ThreadInit(Tail(thr[t].prog)) EXCEPT
                             !.ret = WriteCheck(w)]]
          ELSE /\ Dispatched(w).op \in CmdOps
               /\ thr' = [thr EXCEPT ![t] =
                            [ThreadInit(Tail(thr[t].prog)) EXCEPT
                                !.pc = Entry(Dispatched(w).op),
                                !.op = Dispatched(w)]]
    /\ UNCHANGED <<ctx, xa, mc, mxa, file, ev, cm, gh>>

(* ------------------------- ucma_alloc_ctx ----------------------------- *)
CanAllocCtx == FreeCtxPtrs # {} /\ FreeCtxIds # {}
NewCtxPtr == Min(FreeCtxPtrs)

(* an allocation that hands out the lowest index whether or not it is free:
   C11 depends on xa_alloc taking a free index *)
NewCtxId_Zero == Min(CtxId)

NewCtxId == Min(FreeCtxIds)

ucma_alloc_ctx(cx, f) ==
    [cx EXCEPT ![NewCtxPtr] =
        [CtxInit EXCEPT !.st = "live", !.id = NewCtxId, !.ref = 1, !.file = f]]

(* --------------------------- ucma_create_id --------------------------- *)
ucma_create_id(t) ==
    /\ Pc(t) = "create_id"
    /\ LET f == thr[t].op.f IN
       /\ MutFree(f)
       /\ IF CanAllocCtx
          THEN /\ ctx' = [ucma_alloc_ctx(ctx, f) EXCEPT
                             ![NewCtxPtr].uid = thr[t].op.a]
               /\ xa' = [xa EXCEPT ![NewCtxId] = NewCtxPtr]
               /\ file' = [file EXCEPT ![f].ctx_list = Append(@, NewCtxPtr)]
               /\ thr' = [thr EXCEPT ![t].pc = "create_cm", ![t].c = NewCtxPtr]
          ELSE /\ SetThr(t, Finish(t, ENOMEM))
               /\ UNCHANGED <<ctx, xa, file>>
    /\ UNCHANGED <<mc, mxa, ev, cm, gh>>

(* the context stays on file->ctx_list: C18 depends on the list_del of err1 *)
UnlinkCtx_Stays(q, c) == q

(* list_del(&ctx->list) *)
UnlinkCtx(q, c) == SelectSeqBy(q, CtxPtr \ {c})

(* __rdma_create_id, the response, ctx->cm_id = cm_id; err2/err1 unwind *)
ucma_create_cm(t) ==
    /\ Pc(t) = "create_cm"
    /\ LET f == thr[t].op.f
           c == thr[t].c
       IN
       IF thr[t].op.fail \/ FreeCmIds = {}
       THEN \* IS_ERR(cm_id): err1
            /\ MutFree(f)
            /\ xa' = [xa EXCEPT ![ctx[c].id] = 0]
            /\ file' = [file EXCEPT ![f].ctx_list = UnlinkCtx(@, c)]
            /\ ctx' = [ctx EXCEPT ![c].st = "freed", ![c].frees = @ + 1]
            /\ SetThr(t, Finish(t, ENOMEM))
            /\ UNCHANGED cm
       ELSE LET x == Min(FreeCmIds) IN
            IF thr[t].op.fault
            THEN \* copy_to_user failed: err2 then err1
                 /\ MutFree(f)
                 /\ cm' = [cm EXCEPT ![x] =
                              [CmInit EXCEPT !.st = "dead", !.context = c,
                                             !.destroys = 1]]
                 /\ xa' = [xa EXCEPT ![ctx[c].id] = 0]
                 /\ file' = [file EXCEPT ![f].ctx_list = UnlinkCtx(@, c)]
                 /\ ctx' = [ctx EXCEPT ![c].st = "freed", ![c].frees = @ + 1]
                 /\ SetThr(t, Finish(t, EFAULT))
            ELSE /\ cm' = [cm EXCEPT ![x] =
                              [CmInit EXCEPT !.st = "live", !.context = c]]
                 /\ ctx' = [ctx EXCEPT ![c].cm_id = x]
                 /\ SetThr(t, Finish(t, OK))
                 /\ UNCHANGED <<xa, file>>
    /\ UNCHANGED <<mc, mxa, ev, gh>>

(* -------------- ucma_listen / ucma_bind_ip: get, call, put ------------ *)
Backlog(n) == IF n > 0 /\ n < max_backlog THEN n ELSE max_backlog

ucma_cmd_get(t) ==
    /\ Pc(t) = "cmd_get"
    /\ LET r == ucma_get_ctx(thr[t].op.a, thr[t].op.f)
           c == xa[thr[t].op.a]
       IN
       IF r # OK
       THEN /\ SetThr(t, Finish(t, r))
            /\ UNCHANGED ctx
       ELSE /\ ctx' = [ctx EXCEPT
                 ![c].ref = RefInc(@),
                 ![c].backlog =
                     IF thr[t].op.op = "listen" THEN Backlog(thr[t].op.b) ELSE @,
                 ![c].listenN =
                     IF thr[t].op.op = "listen" THEN Backlog(thr[t].op.b) ELSE @]
            /\ thr' = [thr EXCEPT ![t].pc = "cmd_call", ![t].c = c]
    /\ UNCHANGED <<xa, mc, mxa, file, ev, cm, gh>>

(* mutex_lock(&ctx->mutex) goes on only while no thread holds the mutex *)
(* a mutex that never makes a caller wait: the exclusion of C20 depends on
   mutex_lock *)
CtxMutexFree_Always(c) == TRUE

CtxMutexFree(c) == ctx[c].mutex = 0

(* mutex_lock(&ctx->mutex); the engine call *)
ucma_cmd_call(t) ==
    /\ Pc(t) = "cmd_call"
    /\ LET c == thr[t].c IN
       /\ CtxMutexFree(c)
       /\ ctx' = [ctx EXCEPT ![c].mutex = t]
       /\ cm' = IF cm[ctx[c].cm_id].st # "live" THEN cm
                ELSE IF thr[t].op.op = "listen"
                     THEN [cm EXCEPT ![ctx[c].cm_id].listening = TRUE]
                     ELSE [cm EXCEPT ![ctx[c].cm_id].dev = TRUE]
    /\ Goto(t, "cmd_put")
    /\ UNCHANGED <<xa, mc, mxa, file, ev, gh>>

(* mutex_unlock(&ctx->mutex); ucma_put_ctx(ctx) *)
ucma_cmd_put(t) ==
    /\ Pc(t) = "cmd_put"
    /\ LET c == thr[t].c IN
       ctx' = ucma_put_ctx([ctx EXCEPT ![c].mutex = 0], c)
    /\ SetThr(t, Finish(t, OK))
    /\ UNCHANGED <<xa, mc, mxa, file, ev, cm, gh>>

(* ------------------------------ the engine ---------------------------- *)
(* rdma_destroy_id: returns once no handler runs for the id; no callback   *)
(* fires for it afterwards (the comments at ucma_close_id and ucma_close). *)
CanDestroy(x) == x = 0 \/ cm[x].hnd = 0

rdma_destroy_id(cmf, x) ==
    IF x = 0 THEN cmf
    ELSE [cmf EXCEPT ![x].st = "dead", ![x].destroys = @ + 1,
                     ![x].listening = FALSE]

EventKinds == {"CONNECT_REQUEST", "DEVICE_REMOVAL", "ESTABLISHED", "MULTICAST_JOIN"}

(* the engine invokes ucma_event_handler(cm_id, event); ctx = cm_id->context *)
engine_callback(h) ==
    /\ h \in Handlers
    /\ Pc(h) = "idle"
    /\ thr[h].prog # <<>>
    /\ LET k == Head(thr[h].prog).op
           started(x, m, cmf) ==
               /\ cm' = cmf
               /\ thr' = [thr EXCEPT ![h] =
                     [ThreadInit(Tail(thr[h].prog)) EXCEPT
                         !.pc = "event_handler", !.op = Head(thr[h].prog),
                         !.x = x, !.m = m, !.c = cmf[x].context]]
       IN
       /\ k \in EventKinds
       /\ \/ /\ k = "CONNECT_REQUEST"
             /\ FreeCmIds # {}
             /\ \E l \in CmId :
                  /\ cm[l].st = "live" /\ cm[l].listening /\ cm[l].hnd = 0
                  /\ started(Min(FreeCmIds), 0,
                         [cm EXCEPT
                            ![l].hnd = h,
                            ![Min(FreeCmIds)] =
                                [CmInit EXCEPT !.st = "live", !.hnd = h,
                                    !.context = cm[l].context, !.dev = TRUE,
                                    !.parent = l]])
          \/ /\ k = "DEVICE_REMOVAL"
             /\ \E x \in CmId :
                  /\ cm[x].st = "live" /\ cm[x].hnd = 0 /\ ~cm[x].removed
                  /\ started(x, 0, [cm EXCEPT ![x].hnd = h, ![x].removed = TRUE])
          \/ /\ k = "ESTABLISHED"
             /\ \E x \in CmId :
                  /\ cm[x].st = "live" /\ cm[x].hnd = 0
                  /\ started(x, 0, [cm EXCEPT ![x].hnd = h])
          \/ /\ k = "MULTICAST_JOIN"
             /\ \E m \in McPtr :
                  /\ mc[m].st = "live" /\ mc[m].joined
                  /\ ctx[mc[m].ctx].cm_id # 0
                  /\ cm[ctx[mc[m].ctx].cm_id].st = "live"
                  /\ cm[ctx[mc[m].ctx].cm_id].hnd = 0
                  /\ started(ctx[mc[m].ctx].cm_id, m,
                         [cm EXCEPT ![ctx[mc[m].ctx].cm_id].hnd = h])
    /\ UNCHANGED <<ctx, xa, mc, mxa, file, ev, gh>>

(* ---------------------- ucma_removal_event_handler -------------------- *)
(* the first queued connect request that carries cm_id x, or 0 *)
ConReqOf(fl, evf, f, x) ==
    LET hits == {i \in 1..Len(fl[f].event_list) :
                    /\ evf[fl[f].event_list[i]].cm_id = x
                    /\ evf[fl[f].event_list[i]].kind = "CONNECT_REQUEST"}
    IN IF hits = {} THEN 0 ELSE fl[f].event_list[Min(hits)]

(* queue_work: nothing when the work item is already pending *)
queue_work(q, w) == IF w \in Range(q) THEN q ELSE Append(q, w)

(* every removal is taken for one of the context's own cm_id: C26 depends on
   the test ctx->cm_id == cm_id *)
RemovalOwns_Always(cx, x) == TRUE

(* ctx->cm_id == cm_id *)
RemovalOwns(cx, x) == cx[cm[x].context].cm_id = x

(* a removal that never returns early: C31 depends on the test of
   ctx->destroying *)
RemovalSkips_Never(cx, c) == FALSE

(* if (ctx->destroying) return; *)
RemovalSkips(cx, c) == cx[c].destroying = 1

RemovalCtx(cx, x) ==
    LET c == cm[x].context IN
    IF RemovalSkips(cx, c) THEN cx
    ELSE IF RemovalOwns(cx, x) THEN [cx EXCEPT ![c].closing = 1]
    ELSE cx

RemovalFile(fl, evf, cx, x) ==
    LET c == cm[x].context
        f == cx[c].file
        e == ConReqOf(fl, evf, f, x)
    IN
    IF RemovalSkips(cx, c) THEN fl
    ELSE IF RemovalOwns(cx, x)
         THEN [fl EXCEPT ![f].wq = queue_work(@, [k |-> "ctx", p |-> c])]
    ELSE IF e = 0 THEN fl
    ELSE [fl EXCEPT ![f].event_list = SelectSeqBy(@, EvPtr \ {e}),
                    ![f].wq = queue_work(@, [k |-> "ev", p |-> e])]

RemovalEv(fl, evf, cx, x) ==
    LET c == cm[x].context
        e == ConReqOf(fl, evf, cx[c].file, x)
    IN
    IF RemovalSkips(cx, c) \/ RemovalOwns(cx, x) \/ e = 0 THEN evf
    ELSE [evf EXCEPT ![e].out = "removal"]

(* ------------------------- file->poll_wait ---------------------------- *)
(* the positions at which a thread sleeps on file->poll_wait: in
   wait_event_interruptible of ucma_get_event, and in poll() after ucma_poll
   gave no mask *)
SleepPcs == {"get_event_sleep", "poll_sleep"}

Sleeps(th, t, f) == th[t].pc \in SleepPcs /\ th[t].op.f = f

(* nobody is woken: C15 depends on the wake-up that follows list_add_tail *)
wake_up_interruptible_None(th, f) == th

(* wake_up_interruptible(&file->poll_wait): every sleeper runs again, the
   reader to test its condition, the poller to call ucma_poll *)
wake_up_interruptible(th, f) ==
    [t \in Threads |->
        IF Sleeps(th, t, f)
        THEN [th[t] EXCEPT !.pc = IF th[t].pc = "poll_sleep"
                                  THEN "poll" ELSE "get_event_wait"]
        ELSE th[t]]

(* -------------------------- ucma_event_handler ------------------------ *)
(* a queue that takes a new event at its head: the arrival order of C3
   depends on the insertion at the tail *)
EnqueueEvent_AtHead(q, e) == <<e>> \o q

(* list_add_tail(&uevent->list, &ctx->file->event_list) *)
EnqueueEvent(q, e) == Append(q, e)

(* kzalloc of the event returns NULL: an input of the callback, and what
   happens once every event object of the model is taken *)
KzallocFails(h) == thr[h].op.fail \/ FreeEvPtrs = {}

(* return event->event == RDMA_CM_EVENT_CONNECT_REQUEST *)
KzallocRefusal == "1"

(* a handler that refuses whatever arrives while the backlog is zero: C24
   depends on the test of the event's kind *)
HandlerRet_AnyKind(k, c) == IF ctx[c].backlog = 0 THEN ENOMEM ELSE OK

(* a handler that queues every event that is not a connection request: C25
   depends on the test of ctx->uid and ctx->cm_id *)
HandlerAdmits_Unclaimed(k, c, x) ==
    IF k = "CONNECT_REQUEST" THEN ctx[c].backlog # 0 ELSE TRUE

(* whether the event is put on the queue, and the handler's return value *)
HandlerAdmits(k, c, x) ==
    IF k = "CONNECT_REQUEST" THEN ctx[c].backlog # 0
    ELSE ~(ctx[c].uid = 0 \/ ctx[c].cm_id # x)

HandlerRet(k, c) ==
    IF k = "CONNECT_REQUEST" /\ ctx[c].backlog = 0 THEN ENOMEM ELSE OK

ucma_event_handler(h) ==
    /\ Pc(h) = "event_handler"
    /\ LET c == thr[h].c
           x == thr[h].x
           k == thr[h].op.op
           a == LockedFile(h, c)
           g == ctx[c].file
           e == Min(FreeEvPtrs)
           admit == HandlerAdmits(k, c, x)
           raced == admit /\ a # g /\ file[g].mut \notin {0, h}
           ctx1 == IF admit /\ k = "CONNECT_REQUEST"
                   THEN [ctx EXCEPT ![c].backlog = @ - 1] ELSE ctx
           ev1 == IF admit
                  THEN [ev EXCEPT ![e] =
                          [EvInit EXCEPT !.st = "live", !.ctx = c, !.cm_id = x,
                             !.mc = IF k = "MULTICAST_JOIN" THEN thr[h].m ELSE 0,
                             !.kind = k, !.stamp = gh.clock + 1]]
                  ELSE ev
           rem == k = "DEVICE_REMOVAL"
       IN
       /\ ~KzallocFails(h)
       /\ CanLock(h, c)
       /\ \E lose \in (IF raced THEN BOOLEAN ELSE {FALSE}) :
            LET file1 == IF admit /\ ~lose
                         THEN [file EXCEPT
                                 ![g].event_list = EnqueueEvent(@, e)]
                         ELSE file
                file2 == IF rem THEN RemovalFile(file1, ev1, ctx1, x) ELSE file1
            IN
            /\ file' = [file2 EXCEPT ![a].mut = h]
            /\ ev' = IF rem THEN RemovalEv(file1, ev1, ctx1, x) ELSE ev1
            /\ ctx' = IF rem THEN RemovalCtx(ctx1, x) ELSE ctx1
            /\ gh' = [gh EXCEPT
                        !.clock = IF admit THEN @ + 1 ELSE @,
                        !.lost = IF admit /\ lose THEN @ \cup {e} ELSE @,
                        !.unlocked = @ \/ (a # g /\ (admit \/ rem))]
       /\ LET thr1 == [thr EXCEPT ![h].pc = "event_unlock", ![h].lk = a,
                                   ![h].ret = HandlerRet(k, c)]
          IN thr' = IF admit THEN wake_up_interruptible(thr1, g) ELSE thr1
    /\ UNCHANGED <<xa, mc, mxa, cm>>

(* the callback returns: the engine lets the id (and the listener of a
   connection request) go, and destroys the id of a refused connection
   request *)
callback_return(h, x, refused) ==
    LET cm1 == [cm EXCEPT ![x].hnd = 0]
        cm2 == IF cm[x].parent # 0 /\ cm[cm[x].parent].hnd = h
               THEN [cm1 EXCEPT ![cm[x].parent].hnd = 0] ELSE cm1
    IN
    IF refused /\ thr[h].op.op = "CONNECT_REQUEST"
    THEN [cm2 EXCEPT ![x].st = "dead", ![x].destroys = @ + 1]
    ELSE cm2

(* kzalloc of the event failed: nothing is locked or queued, a connection
   request is refused *)
ucma_event_nomem(h) ==
    /\ Pc(h) = "event_handler"
    /\ KzallocFails(h)
    /\ cm' = callback_return(h, thr[h].x, TRUE)
    /\ SetThr(h, Finish(h, IF thr[h].op.op = "CONNECT_REQUEST"
                           THEN KzallocRefusal ELSE OK))
    /\ UNCHANGED <<ctx, xa, mc, mxa, file, ev, gh>>

(* mutex_unlock(&ctx->file->mut); return ret *)
ucma_event_unlock(h) ==
    /\ Pc(h) = "event_unlock"
    /\ LET c == thr[h].c
           x == thr[h].x
           g == ctx[c].file
       IN
       /\ file' = [file EXCEPT ![g].mut = 0]
       /\ cm' = callback_return(h, x, thr[h].ret # OK)
       /\ gh' = [gh EXCEPT !.wrongunlock = @ \/ file[g].mut # h]
    /\ SetThr(h, [Finish(h, thr[h].ret) EXCEPT !.lk = 0])
    /\ UNCHANGED <<ctx, xa, mc, mxa, ev>>

(* --------------------------- ucma_get_event --------------------------- *)
(* a delivery that is not counted: the answer of C10 depends on the count *)
ReportEvent_NotCounted(cx, e) == cx

(* ctx->events_reported++ (and mc->events_reported++) for a delivered event *)
ReportEvent(cx, e) == [cx EXCEPT ![ev[e].ctx].events_reported = @ + 1]

ReportMcEvent(mf, e) ==
    IF ev[e].mc = 0 THEN mf ELSE [mf EXCEPT ![ev[e].mc].events_reported = @ + 1]

(* uevent = list_entry(file->event_list.next, ...) *)
NextEvent(q) == Head(q)

(* the new context of a connect request adopts the event's cm_id; the
   listener gets its backlog slot back *)
AdoptCtx(cx, f, e) ==
    [ucma_alloc_ctx(cx, f) EXCEPT
        ![NewCtxPtr].cm_id = ev[e].cm_id,
        ![ev[e].ctx].backlog = @ + 1]

(* uevent->mc->events_reported++ lands in a group that was already freed *)
ReadsFreedMc(e) == ev[e].mc # 0 /\ mc[ev[e].mc].st = "freed"

(* out_len < sizeof(resp) - sizeof(resp.reserved) - sizeof(resp.ece): the
   argument a = 1 of a get_event is a response buffer below that header *)
OutLenTooSmall(o) == o.a = 1

(* an event that leaves the queue whether or not it was delivered: C28
   depends on list_del coming after the copy to the user *)
TakeEvent_Early(q, e, ok) == SelectSeqBy(q, EvPtr \ {e})

(* list_del(&uevent->list), reached only after a successful copy_to_user *)
TakeEvent(q, e, ok) == IF ok THEN SelectSeqBy(q, EvPtr \ {e}) ELSE q

ucma_get_event(t) ==
    /\ Pc(t) = "get_event"
    /\ LET f == thr[t].op.f
           q == file[f].event_list
       IN
       /\ OutLenTooSmall(thr[t].op) \/ MutFree(f)
       /\ IF OutLenTooSmall(thr[t].op)
          THEN \* -ENOSPC before anything is read or locked
               /\ SetThr(t, Finish(t, ENOSPC))
               /\ UNCHANGED <<ctx, xa, mc, file, ev, cm, gh>>
          ELSE IF q = <<>>
          THEN \* -EAGAIN under O_NONBLOCK (op.b = 1), else the wait
               /\ IF thr[t].op.b = 1
                  THEN SetThr(t, Finish(t, EAGAIN))
                  ELSE Goto(t, "get_event_wait")
               /\ UNCHANGED <<ctx, xa, mc, file, ev, cm, gh>>
          ELSE LET e == NextEvent(q)
                   req == ev[e].kind = "CONNECT_REQUEST"
                   adopt == req /\ CanAllocCtx
                   ctx1 == IF adopt THEN AdoptCtx(ctx, f, e) ELSE ctx
                   ok == (req => adopt) /\ ~thr[t].op.fault
               IN
               /\ xa' = IF adopt THEN [xa EXCEPT ![NewCtxId] = NewCtxPtr] ELSE xa
               /\ cm' = IF adopt
                        THEN [cm EXCEPT ![ev[e].cm_id].context = NewCtxPtr]
                        ELSE cm
               /\ file' = [file EXCEPT
                     ![f].ctx_list = IF adopt THEN Append(@, NewCtxPtr) ELSE @,
                     ![f].event_list = TakeEvent(@, e, ok)]
               /\ ctx' = IF ok
                         THEN [ReportEvent(ctx1, e) EXCEPT
                                 ![ev[e].ctx].delivered = @ + 1]
                         ELSE ctx1
               /\ mc' = IF ok /\ ev[e].mc # 0
                        THEN [ReportMcEvent(mc, e) EXCEPT
                                 ![ev[e].mc].delivered = @ + 1]
                        ELSE mc
               /\ ev' = IF ok
                        THEN [ev EXCEPT ![e].st = "freed", ![e].out = "read"]
                        ELSE ev
               /\ gh' = IF ok
                        THEN [gh EXCEPT
                                !.ooo = @ \/ ev[e].stamp < gh.lastRead[f],
                                !.lastRead[f] = ev[e].stamp,
                                !.uaf = @ \/ ReadsFreedMc(e)]
                        ELSE gh
               /\ SetThr(t, [Finish(t, IF ok THEN OK
                                        ELSE IF req /\ ~adopt THEN ENOMEM
                                        ELSE EFAULT)
                                EXCEPT !.c = IF adopt THEN NewCtxPtr ELSE 0,
                                       !.m = e])
    /\ UNCHANGED mxa

(* wait_event_interruptible(file->poll_wait, !list_empty(&file->event_list)):
   the condition is tested before the sleep and after every wake-up *)
ucma_get_event_wait(t) ==
    /\ Pc(t) = "get_event_wait"
    /\ Goto(t, IF file[thr[t].op.f].event_list # <<>>
               THEN "get_event" ELSE "get_event_sleep")
    /\ UNCHANGED <<ctx, xa, mc, mxa, file, ev, cm, gh>>

(* a signal ends the sleep: -ERESTARTSYS *)
ucma_get_event_signal(t) ==
    /\ Pc(t) = "get_event_sleep"
    /\ thr[t].op.sig
    /\ SetThr(t, Finish(t, ERESTARTSYS))
    /\ UNCHANGED <<ctx, xa, mc, mxa, file, ev, cm, gh>>

(* ------------------------------ ucma_poll ----------------------------- *)
(* poll() on the file: op.b = 1 is a poll that does not wait *)
do_poll(t) ==
    /\ t \in Clients
    /\ Pc(t) = "idle"
    /\ thr[t].prog # <<>>
    /\ Head(thr[t].prog).op = "poll"
    /\ file[Head(thr[t].prog).f].st = "open"
    /\ thr' = [thr EXCEPT ![t] =
                 [ThreadInit(Tail(thr[t].prog)) EXCEPT
                     !.pc = "poll", !.op = Head(thr[t].prog)]]
    /\ UNCHANGED <<ctx, xa, mc, mxa, file, ev, cm, gh>>

(* the mask of ucma_poll: list_empty(&file->event_list) read without
   file->mut *)
PollMask(f) == IF file[f].event_list # <<>> THEN EPOLLIN ELSE NoMask

(* poll_wait(filp, &file->poll_wait, wait) and the mask; with no mask the
   caller returns or sleeps on poll_wait (tmp counts its sleeps) *)
ucma_poll(t) ==
    /\ Pc(t) = "poll"
    /\ LET f == thr[t].op.f IN
       IF PollMask(f) # NoMask \/ thr[t].op.b = 1
       THEN SetThr(t, Finish(t, PollMask(f)))
       ELSE thr' = [thr EXCEPT ![t].pc = "poll_sleep", ![t].tmp = @ + 1]
    /\ UNCHANGED <<ctx, xa, mc, mxa, file, ev, cm, gh>>

(* the same increment faults instead: the reader stops with file->mut held *)
ucma_get_event_oops(t) ==
    /\ Pc(t) = "get_event"
    /\ LET f == thr[t].op.f IN
       /\ MutFree(f)
       /\ file[f].event_list # <<>>
       /\ ~OutLenTooSmall(thr[t].op)
       /\ ~thr[t].op.fault
       /\ ReadsFreedMc(NextEvent(file[f].event_list))
       /\ file' = [file EXCEPT ![f].mut = t]
       /\ gh' = [gh EXCEPT !.uaf = TRUE]
    /\ Goto(t, "oops")
    /\ UNCHANGED <<ctx, xa, mc, mxa, ev, cm>>

(* ------------------- the ordered workqueue close_wq ------------------- *)
worker_take(w) ==
    /\ \E f \in Files :
         /\ w = WorkerOf(f)
         /\ Pc(w) = "idle"
         /\ file[f].wq # <<>>
         /\ file' = [file EXCEPT ![f].wq = Tail(@)]
         /\ thr' = [thr EXCEPT ![w] =
               [ThreadInit(<<>>) EXCEPT
                  !.pc = IF Head(file[f].wq).k = "ctx"
                         THEN "close_id" ELSE "close_event_id",
                  !.op = [NoOp EXCEPT !.op = "work", !.f = f],
                  !.c = IF Head(file[f].wq).k = "ctx"
                        THEN Head(file[f].wq).p ELSE 0,
                  !.m = IF Head(file[f].wq).k = "ev"
                        THEN Head(file[f].wq).p ELSE 0]]
    /\ UNCHANGED <<ctx, xa, mc, mxa, ev, cm, gh>>

(* ucma_close_id: ucma_put_ctx(ctx) *)
ucma_close_id(w) ==
    /\ Pc(w) = "close_id"
    /\ ctx' = ucma_put_ctx(ctx, thr[w].c)
    /\ Goto(w, "close_id_wait")
    /\ UNCHANGED <<xa, mc, mxa, file, ev, cm, gh>>

(* wait_for_completion(&ctx->comp) *)
ucma_close_id_wait(w) ==
    /\ Pc(w) = "close_id_wait"
    /\ ctx[thr[w].c].done > 0
    /\ ctx' = [ctx EXCEPT ![thr[w].c].done = @ - 1]
    /\ Goto(w, "close_id_rdma")
    /\ UNCHANGED <<xa, mc, mxa, file, ev, cm, gh>>

(* rdma_destroy_id(ctx->cm_id); the work item is done *)
ucma_close_id_rdma(w) ==
    /\ Pc(w) = "close_id_rdma"
    /\ CanDestroy(ctx[thr[w].c].cm_id)
    /\ cm' = rdma_destroy_id(cm, ctx[thr[w].c].cm_id)
    /\ file' = [file EXCEPT ![thr[w].op.f].wdone = @ + 1]
    /\ SetThr(w, Finish(w, OK))
    /\ UNCHANGED <<ctx, xa, mc, mxa, ev, gh>>

(* ucma_close_event_id: rdma_destroy_id(uevent_close->cm_id); kfree *)
ucma_close_event_id(w) ==
    /\ Pc(w) = "close_event_id"
    /\ CanDestroy(ev[thr[w].m].cm_id)
    /\ cm' = rdma_destroy_id(cm, ev[thr[w].m].cm_id)
    /\ ev' = [ev EXCEPT ![thr[w].m].st = "freed"]
    /\ file' = [file EXCEPT ![thr[w].op.f].wdone = @ + 1]
    /\ SetThr(w, Finish(w, OK))
    /\ UNCHANGED <<ctx, xa, mc, mxa, gh>>

(* flush_workqueue: the items queued before the call have all run *)
FlushTarget(f) ==
    file[f].wdone + Len(file[f].wq) + (IF Pc(WorkerOf(f)) = "idle" THEN 0 ELSE 1)

(* --------------------------- ucma_destroy_id -------------------------- *)
(* xa_lock; _ucma_find_context; __xa_erase; xa_unlock *)
ucma_destroy_id(t) ==
    /\ Pc(t) = "destroy_id"
    /\ LET r == _ucma_find_context(thr[t].op.a, thr[t].op.f)
           c == xa[thr[t].op.a]
       IN
       IF r # OK
       THEN /\ SetThr(t, Finish(t, r))
            /\ UNCHANGED xa
       ELSE /\ xa' = [xa EXCEPT ![ctx[c].id] = 0]
            /\ thr' = [thr EXCEPT ![t].pc = "destroy_mark", ![t].c = c,
                                  ![t].cont = "destroy_resp"]
    /\ UNCHANGED <<ctx, mc, mxa, file, ev, cm, gh>>

(* mutex_lock(&ctx->file->mut); ctx->destroying = 1; mutex_unlock *)
ucma_destroy_mark(t) ==
    /\ Pc(t) = "destroy_mark"
    /\ LET c == thr[t].c IN
       /\ CanLock(t, c)
       /\ ctx' = [ctx EXCEPT ![c].destroying = 1]
       /\ file' = MutAfterCS(file, t, c)
       /\ gh' = [gh EXCEPT !.wrongunlock = @ \/ Stale(t, c)]
    /\ thr' = [thr EXCEPT ![t].pc = "td_flush", ![t].lk = 0]
    /\ UNCHANGED <<xa, mc, mxa, ev, cm>>

(* flush_workqueue(ctx->file->close_wq), file->close_wq in ucma_close *)
FlushedFile(t) ==
    IF thr[t].op.op = "close" THEN thr[t].op.f ELSE ctx[thr[t].c].file

teardown_flush(t) ==
    /\ Pc(t) = "td_flush"
    /\ LET f == FlushedFile(t) IN
       thr' = [thr EXCEPT
                 ![t].pc = IF FlushTarget(f) = file[f].wdone
                           THEN "td_put" ELSE "td_flush_wait",
                 ![t].tgt = FlushTarget(f), ![t].x = f]
    /\ UNCHANGED <<ctx, xa, mc, mxa, file, ev, cm, gh>>

teardown_flush_wait(t) ==
    /\ Pc(t) = "td_flush_wait"
    /\ file[thr[t].x].wdone >= thr[t].tgt
    /\ Goto(t, "td_put")
    /\ UNCHANGED <<ctx, xa, mc, mxa, file, ev, cm, gh>>

(* if (!ctx->closing) ucma_put_ctx(ctx), then the wait; else straight to
   ucma_free_ctx *)
TeardownSkipsRelease(c) == ctx[c].closing # 0

teardown_put(t) ==
    /\ Pc(t) = "td_put"
    /\ LET c == thr[t].c IN
       IF TeardownSkipsRelease(c)
       THEN /\ Goto(t, "free_mc")
            /\ UNCHANGED ctx
       ELSE /\ ctx' = ucma_put_ctx(ctx, c)
            /\ Goto(t, "td_wait")
    /\ UNCHANGED <<xa, mc, mxa, file, ev, cm, gh>>

(* wait_for_completion(&ctx->comp) *)
teardown_wait(t) ==
    /\ Pc(t) = "td_wait"
    /\ ctx[thr[t].c].done > 0
    /\ ctx' = [ctx EXCEPT ![thr[t].c].done = @ - 1]
    /\ Goto(t, "td_rdma")
    /\ UNCHANGED <<xa, mc, mxa, file, ev, cm, gh>>

(* rdma_destroy_id(ctx->cm_id) *)
teardown_rdma(t) ==
    /\ Pc(t) = "td_rdma"
    /\ CanDestroy(ctx[thr[t].c].cm_id)
    /\ cm' = rdma_destroy_id(cm, ctx[thr[t].c].cm_id)
    /\ Goto(t, "free_mc")
    /\ UNCHANGED <<ctx, xa, mc, mxa, file, ev, gh>>

(* ---------------------------- ucma_free_ctx --------------------------- *)
(* ucma_cleanup_multicast: every group of the context is unlinked, erased
   from multicast_table and freed *)
(* the groups stay in multicast_table: C7 depends on the xa_erase *)
CleanupMcTable_NoErase(mx, c) == mx

CleanupMcTable(mx, c) ==
    [i \in McId |->
        IF \E m \in Range(ctx[c].mc_list) : mc[m].id = i
        THEN [used |-> FALSE, ptr |-> 0] ELSE mx[i]]

CleanupMc(mf, c) ==
    [m \in McPtr |->
        IF m \in Range(ctx[c].mc_list)
        THEN [mf[m] EXCEPT !.st = "freed", !.frees = @ + 1, !.joined = FALSE]
        ELSE mf[m]]

ucma_cleanup_multicast(t) ==
    /\ Pc(t) = "free_mc"
    /\ LET c == thr[t].c IN
       /\ CanLock(t, c)
       /\ mxa' = CleanupMcTable(mxa, c)
       /\ mc' = CleanupMc(mc, c)
       /\ ctx' = [ctx EXCEPT ![c].mc_list = <<>>]
       /\ file' = MutAfterCS(file, t, c)
       /\ gh' = [gh EXCEPT !.wrongunlock = @ \/ Stale(t, c),
                           !.unlocked = @ \/ (Stale(t, c) /\ ctx[c].mc_list # <<>>)]
    /\ thr' = [thr EXCEPT ![t].pc = "free_events", ![t].lk = 0]
    /\ UNCHANGED <<xa, ev, cm>>

(* the events of the context leave ctx->file's queue for a private list;
   list_del(&ctx->list); events_reported = ctx->events_reported *)
EventsOf(q, c) == SelectSeqBy(q, {e \in EvPtr : ev[e].ctx = c})

(* the events of the context stay on the queue they are collected from: C36
   depends on list_move_tail taking them off *)
EventsNotOf_Keeps(q, c) == q

EventsNotOf(q, c) == SelectSeqBy(q, {e \in EvPtr : ev[e].ctx # c})

ucma_free_ctx_events(t) ==
    /\ Pc(t) = "free_events"
    /\ LET c == thr[t].c
           g == ctx[c].file
       IN
       /\ CanLock(t, c)
       /\ file' = MutAfterCS(
             [f \in Files |->
                [file[f] EXCEPT
                   !.event_list = IF f = g THEN EventsNotOf(@, c) ELSE @,
                   !.ctx_list = SelectSeqBy(@, CtxPtr \ {c})]], t, c)
       /\ gh' = [gh EXCEPT !.wrongunlock = @ \/ Stale(t, c),
                           !.unlocked = @ \/ Stale(t, c)]
       /\ thr' = [thr EXCEPT ![t].pc = "free_release", ![t].lk = 0,
                             ![t].lst = EventsOf(file[g].event_list, c),
                             ![t].er = ctx[c].events_reported]
    /\ UNCHANGED <<ctx, xa, mc, mxa, ev, cm>>

(* rdma_destroy_id of every unread connect request, kfree of the events and
   of the context; ucma_destroy_id then answers events_reported *)
ConReqIds(l) ==
    {ev[l[i]].cm_id : i \in {j \in 1..Len(l) : ev[l[j]].kind = "CONNECT_REQUEST"}}

RECURSIVE DestroyAll(_, _)
DestroyAll(cmf, S) ==
    IF S = {} THEN cmf
    ELSE LET x == Min(S) IN DestroyAll(rdma_destroy_id(cmf, x), S \ {x})

ucma_free_ctx_release(t) ==
    /\ Pc(t) = "free_release"
    /\ LET c == thr[t].c
           l == thr[t].lst
       IN
       /\ \A x \in ConReqIds(l) : CanDestroy(x)
       /\ cm' = DestroyAll(cm, ConReqIds(l))
       /\ ev' = [e \in EvPtr |->
                   IF e \in Range(l)
                   THEN [ev[e] EXCEPT !.st = "freed", !.out = "destroy"]
                   ELSE ev[e]]
       /\ ctx' = [ctx EXCEPT ![c].st = "freed", ![c].frees = @ + 1]
       /\ gh' = [gh EXCEPT !.torn = @ \cup {c}]
       /\ IF thr[t].cont = "destroy_resp"
          THEN SetThr(t, [Finish(t, IF thr[t].op.fault THEN EFAULT ELSE OK)
                             EXCEPT !.lst = <<>>])
          ELSE thr' = [thr EXCEPT ![t].pc = thr[t].cont, ![t].lst = <<>>]
    /\ UNCHANGED <<xa, mc, mxa, file>>

(* ------------------------------ ucma_close ---------------------------- *)
(* release() runs once nothing uses the file: no write() is in flight on it
   and no ucma_migrate_id holds it through fdget() *)
FileInUse(f) ==
    \E u \in Clients :
        /\ Pc(u) # "idle"
        /\ \/ thr[u].op.f = f
           \/ /\ thr[u].op.op = "migrate_id"
              /\ thr[u].op.b = f
              /\ Pc(u) # "migrate_get"

ucma_close(t) ==
    /\ t \in Clients
    /\ Pc(t) = "idle"
    /\ thr[t].prog # <<>>
    /\ Head(thr[t].prog).op = "close"
    /\ LET f == Head(thr[t].prog).f IN
       /\ file[f].st = "open"
       /\ ~FileInUse(f)
       /\ file' = [file EXCEPT ![f].st = "closing"]
       /\ thr' = [thr EXCEPT ![t] =
             [ThreadInit(Tail(thr[t].prog)) EXCEPT
                 !.pc = "close_next", !.op = Head(thr[t].prog), !.tmp = -1]]
    /\ UNCHANGED <<ctx, xa, mc, mxa, ev, cm, gh>>

(* list_for_each_entry_safe(ctx, tmp, &file->ctx_list) *)
NextInList(l, p) ==
    LET at == {i \in 1..Len(l) : l[i] = p} IN
    IF at = {} \/ Min(at) = Len(l) THEN 0 ELSE l[Min(at) + 1]

(* under file->mut: the next context is marked destroying; then
   xa_erase(&ctx_table, ctx->id) *)
ucma_close_next(t) ==
    /\ Pc(t) = "close_next"
    /\ LET f == thr[t].op.f
           l == file[f].ctx_list
           cur == IF thr[t].tmp = -1
                  THEN (IF l = <<>> THEN 0 ELSE Head(l))
                  ELSE thr[t].tmp
       IN
       /\ MutFree(f)
       /\ IF cur = 0
          THEN /\ Goto(t, "close_wq")
               /\ UNCHANGED <<ctx, xa>>
          ELSE /\ ctx' = [ctx EXCEPT ![cur].destroying = 1]
               /\ xa' = [xa EXCEPT ![ctx[cur].id] = 0]
               /\ thr' = [thr EXCEPT ![t].pc = "td_flush", ![t].c = cur,
                                     ![t].tmp = NextInList(l, cur),
                                     ![t].cont = "close_next"]
    /\ UNCHANGED <<mc, mxa, file, ev, cm, gh>>

(* destroy_workqueue(file->close_wq); kfree(file) *)
ucma_close_wq(t) ==
    /\ Pc(t) = "close_wq"
    /\ LET f == thr[t].op.f IN
       /\ file[f].wq = <<>>
       /\ Pc(WorkerOf(f)) = "idle"
       /\ file' = [file EXCEPT ![f].st = "closed"]
    /\ SetThr(t, Finish(t, OK))
    /\ UNCHANGED <<ctx, xa, mc, mxa, ev, cm, gh>>

(* --------------------------- ucma_migrate_id -------------------------- *)
(* fdget(cmd.fd); ucma_get_ctx(f.file->private_data, cmd.id).  op.f is
   new_file, op.b is cmd.fd *)
ucma_migrate_get(t) ==
    /\ Pc(t) = "migrate_get"
    /\ LET r == ucma_get_ctx(thr[t].op.a, thr[t].op.b)
           c == xa[thr[t].op.a]
       IN
       IF file[thr[t].op.b].st # "open"
       THEN /\ SetThr(t, Finish(t, ENOENT))
            /\ UNCHANGED ctx
       ELSE IF r # OK
       THEN /\ SetThr(t, Finish(t, r))
            /\ UNCHANGED ctx
       ELSE /\ ctx' = [ctx EXCEPT ![c].ref = RefInc(@)]
            /\ thr' = [thr EXCEPT ![t].pc = "migrate_cur", ![t].c = c]
    /\ UNCHANGED <<xa, mc, mxa, file, ev, cm, gh>>

(* cur_file = ctx->file: read after ucma_get_ctx dropped xa_lock and before
   any file mutex is taken *)
ucma_migrate_cur(t) ==
    /\ Pc(t) = "migrate_cur"
    /\ thr' = [thr EXCEPT ![t].pc = "migrate_lock1",
                          ![t].x = ctx[thr[t].c].file]
    /\ UNCHANGED <<ctx, xa, mc, mxa, file, ev, cm, gh>>

(* ucma_lock_files: the file at the lower address first *)
FirstLocked(f1, f2) == IF f1 < f2 THEN f1 ELSE f2
SecondLocked(f1, f2) == IF f1 < f2 THEN f2 ELSE f1

ucma_migrate_lock1(t) ==
    /\ Pc(t) = "migrate_lock1"
    /\ LET cur == thr[t].x
           new == thr[t].op.f
       IN
       IF cur = new
       THEN \* events_reported is read under cur_file->mut, nothing moves
            /\ MutFree(cur)
            /\ thr' = [thr EXCEPT ![t].pc = "migrate_resp",
                                  ![t].er = ctx[thr[t].c].events_reported]
            /\ UNCHANGED file
       ELSE /\ MutFree(FirstLocked(cur, new))
            /\ file' = [file EXCEPT ![FirstLocked(cur, new)].mut = t]
            /\ Goto(t, "migrate_lock2")
    /\ UNCHANGED <<ctx, xa, mc, mxa, ev, cm, gh>>

ucma_migrate_lock2(t) ==
    /\ Pc(t) = "migrate_lock2"
    /\ LET s == SecondLocked(thr[t].x, thr[t].op.f) IN
       /\ MutFree(s)
       /\ file' = [file EXCEPT ![s].mut = t]
    /\ Goto(t, "migrate_move")
    /\ UNCHANGED <<ctx, xa, mc, mxa, ev, cm, gh>>

(* ucma_move_events: every event of ctx on ctx->file's queue goes, in queue
   order, to the tail of the new file's queue *)
(* the moved events go to the head of the new queue: the order of C4
   depends on list_move_tail *)
ucma_move_events_AtHead(fl, c, new) ==
    LET old == ctx[c].file IN
    [fl EXCEPT ![old].event_list = EventsNotOf(fl[old].event_list, c),
               ![new].event_list = EventsOf(fl[old].event_list, c) \o @]

ucma_move_events(fl, c, new) ==
    LET old == ctx[c].file
        mine == EventsOf(fl[old].event_list, c)
        rest == EventsNotOf(fl[old].event_list, c)
    IN
    IF old = new
    THEN [fl EXCEPT ![new].event_list = rest \o mine]
    ELSE [fl EXCEPT ![old].event_list = rest,
                    ![new].event_list = @ \o mine]

(* list_for_each_entry_safe over a list whose moved entries return to its own
   tail never reaches the head again once two entries are moved *)
MoveEventsSpins(c, new) ==
    ctx[c].file = new /\ Len(EventsOf(file[new].event_list, c)) >= 2

(* list_move_tail(&ctx->list, &new_file->ctx_list) *)
MoveCtx(fl, c, new) ==
    [f \in Files |->
        [fl[f] EXCEPT !.ctx_list =
            IF f = new THEN Append(SelectSeqBy(@, CtxPtr \ {c}), c)
            ELSE SelectSeqBy(@, CtxPtr \ {c})]]

(* the move under both mutexes and xa_lock, then ucma_unlock_files *)
ucma_migrate_move(t) ==
    /\ Pc(t) = "migrate_move"
    /\ LET c == thr[t].c
           cur == thr[t].x
           new == thr[t].op.f
           moved == ucma_move_events(MoveCtx(file, c, new), c, new)
       IN
       IF MoveEventsSpins(c, new)
       THEN /\ Goto(t, "migrate_spin")
            /\ UNCHANGED <<ctx, file>>
       ELSE /\ file' = [moved EXCEPT ![cur].mut = 0, ![new].mut = 0]
            /\ ctx' = [ctx EXCEPT ![c].file = new]
            /\ thr' = [thr EXCEPT ![t].pc = "migrate_resp",
                                  ![t].er = ctx[c].events_reported,
                                  ![t].lst = EventsOf(
                                      file[ctx[c].file].event_list, c)]
    /\ UNCHANGED <<xa, mc, mxa, ev, cm, gh>>

(* copy_to_user; ucma_put_ctx(ctx); fdput(f) *)
ucma_migrate_resp(t) ==
    /\ Pc(t) = "migrate_resp"
    /\ ctx' = ucma_put_ctx(ctx, thr[t].c)
    /\ SetThr(t, Finish(t, IF thr[t].op.fault THEN EFAULT ELSE OK))
    /\ UNCHANGED <<xa, mc, mxa, file, ev, cm, gh>>

(* -------------------------- ucma_process_join ------------------------- *)
(* ucma_get_ctx_dev: the context must be bound to a device *)
ucma_get_ctx_dev(id, f) ==
    IF ucma_get_ctx(id, f) # OK THEN ucma_get_ctx(id, f)
    ELSE IF ~cm[ctx[xa[id]].cm_id].dev THEN EINVAL
    ELSE OK

ucma_join_get(t) ==
    /\ Pc(t) = "join_get"
    /\ LET r == ucma_get_ctx_dev(thr[t].op.a, thr[t].op.f)
           c == xa[thr[t].op.a]
       IN
       IF r # OK
       THEN /\ SetThr(t, Finish(t, r))
            /\ UNCHANGED ctx
       ELSE /\ ctx' = [ctx EXCEPT ![c].ref = RefInc(@)]
            /\ thr' = [thr EXCEPT ![t].pc = "join_cs", ![t].c = c]
    /\ UNCHANGED <<xa, mc, mxa, file, ev, cm, gh>>

(* mutex_lock(&file->mut); ucma_alloc_multicast: the id is reserved with a
   NULL entry and the group is linked on ctx->mc_list *)
CanAllocMc == FreeMcPtrs # {} /\ FreeMcIds # {}

ucma_alloc_multicast(mf, c) ==
    [mf EXCEPT ![Min(FreeMcPtrs)] =
        [McInit EXCEPT !.st = "live", !.id = Min(FreeMcIds), !.ctx = c]]

(* the group is entered in multicast_table at once: C22 depends on the NULL
   entry of xa_alloc *)
ReserveMcId_Published(mx, i, m) == [mx EXCEPT ![i] = [used |-> TRUE, ptr |-> m]]

(* xa_alloc(&multicast_table, &mc->id, NULL, ...): the index is taken, the
   entry stays NULL *)
ReserveMcId(mx, i, m) == [mx EXCEPT ![i] = [used |-> TRUE, ptr |-> 0]]

ucma_join_cs(t) ==
    /\ Pc(t) = "join_cs"
    /\ LET f == thr[t].op.f
           c == thr[t].c
           m == Min(FreeMcPtrs)
       IN
       /\ MutFree(f)
       /\ IF ~CanAllocMc
          THEN \* err1
               /\ ctx' = ucma_put_ctx(ctx, c)
               /\ SetThr(t, Finish(t, ENOMEM))
               /\ UNCHANGED <<mc, mxa, file>>
          ELSE /\ mc' = [ucma_alloc_multicast(mc, c) EXCEPT ![m].uid = thr[t].op.b]
               /\ mxa' = ReserveMcId(mxa, Min(FreeMcIds), m)
               /\ ctx' = [ctx EXCEPT ![c].mc_list = Append(@, m)]
               /\ file' = [file EXCEPT ![f].mut = t]
               /\ thr' = [thr EXCEPT ![t].pc = "join_engine", ![t].m = m]
    /\ UNCHANGED <<xa, ev, cm, gh>>

(* xa_erase(&multicast_table, mc->id); list_del(&mc->list); kfree(mc) *)
JoinErr2Mc(mf, m) == [mf EXCEPT ![m].st = "freed", ![m].frees = @ + 1,
                                ![m].joined = FALSE]
JoinErr2Table(mx, m) == [mx EXCEPT ![mc[m].id] = [used |-> FALSE, ptr |-> 0]]
JoinErr2Ctx(cx, c, m) == [cx EXCEPT ![c].mc_list = SelectSeqBy(@, McPtr \ {m})]

(* rdma_join_multicast under ctx->mutex; file->mut stays held *)
ucma_join_engine(t) ==
    /\ Pc(t) = "join_engine"
    /\ LET f == thr[t].op.f
           c == thr[t].c
           m == thr[t].m
       IN
       /\ CtxMutexFree(c)
       /\ IF thr[t].op.fail
          THEN \* the engine refuses the join: err2, err1
               /\ mc' = JoinErr2Mc(mc, m)
               /\ mxa' = JoinErr2Table(mxa, m)
               /\ ctx' = ucma_put_ctx(JoinErr2Ctx(ctx, c, m), c)
               /\ file' = [file EXCEPT ![f].mut = 0]
               /\ SetThr(t, Finish(t, EINVAL))
          ELSE /\ mc' = [mc EXCEPT ![m].joined = TRUE]
               /\ Goto(t, "join_resp")
               /\ UNCHANGED <<ctx, mxa, file>>
    /\ UNCHANGED <<xa, ev, cm, gh>>

(* rdma_leave_multicast returns once no callback of the group is running *)
McQuiet(m) == \A h \in Handlers : Pc(h) = "idle" \/ thr[h].m # m

(* ucma_cleanup_mc_events: the queued events of the group are freed *)
McEventsOf(q, m) == SelectSeqBy(q, {e \in EvPtr : ev[e].mc = m})

(* every event of the group's context leaves the queue: the frame of C8
   depends on the test uevent->mc != mc *)
McEventsNotOf_WholeCtx(q, m) == EventsNotOf(q, mc[m].ctx)

McEventsNotOf(q, m) == SelectSeqBy(q, {e \in EvPtr : ev[e].mc # m})

ucma_cleanup_mc_events(evf, q, m) ==
    [e \in EvPtr |->
        IF e \in Range(McEventsOf(q, m))
        THEN [evf[e] EXCEPT !.st = "freed", !.out = "leave"]
        ELSE evf[e]]

(* the response; xa_store(&multicast_table, mc->id, mc); err3 on a fault.
   err3 walks mc->ctx->file's event_list under the caller's file->mut: when
   the context has migrated since the lookup and another thread is inside
   the other file's critical section, the walk may miss the group's events *)
ucma_join_resp(t) ==
    /\ Pc(t) = "join_resp"
    /\ LET f == thr[t].op.f
           c == thr[t].c
           m == thr[t].m
           g == ctx[c].file
           raced == g # f /\ file[g].mut \notin {0, t}
       IN
       IF thr[t].op.fault
       THEN /\ McQuiet(m)
            /\ \E miss \in (IF raced THEN BOOLEAN ELSE {FALSE}) :
                 /\ ev' = IF miss THEN ev
                          ELSE ucma_cleanup_mc_events(ev, file[g].event_list, m)
                 /\ file' = [[file EXCEPT
                                ![g].event_list =
                                    IF miss THEN @ ELSE McEventsNotOf(@, m)]
                                EXCEPT ![f].mut = 0]
            /\ mc' = JoinErr2Mc(mc, m)
            /\ mxa' = JoinErr2Table(mxa, m)
            /\ ctx' = ucma_put_ctx(JoinErr2Ctx(ctx, c, m), c)
            /\ gh' = [gh EXCEPT
                        !.unlocked = @ \/ (g # f /\
                            McEventsOf(file[g].event_list, m) # <<>>)]
            /\ SetThr(t, Finish(t, EFAULT))
       ELSE /\ mxa' = [mxa EXCEPT ![mc[m].id].ptr = m]
            /\ ctx' = ucma_put_ctx(ctx, c)
            /\ file' = [file EXCEPT ![f].mut = 0]
            /\ SetThr(t, [Finish(t, OK) EXCEPT !.er = mc[m].id])
            /\ UNCHANGED <<mc, ev, gh>>
    /\ UNCHANGED <<xa, cm>>

(* ------------------------- ucma_leave_multicast ----------------------- *)
(* xa_lock(&multicast_table): the lookup, refcount_inc_not_zero(&mc->ctx->ref)
   and __xa_erase *)
LeaveLookup(id, f) ==
    IF id \notin McId \/ ~mxa[id].used \/ mxa[id].ptr = 0 THEN ENOENT
    ELSE IF ctx[mc[mxa[id].ptr].ctx].file # f THEN EINVAL
    ELSE IF ctx[mc[mxa[id].ptr].ctx].ref = 0 THEN ENXIO
    ELSE OK

ucma_leave_find(t) ==
    /\ Pc(t) = "leave_find"
    /\ LET id == thr[t].op.a
           r == LeaveLookup(id, thr[t].op.f)
           m == mxa[id].ptr
       IN
       IF r # OK
       THEN /\ SetThr(t, Finish(t, r))
            /\ UNCHANGED <<ctx, mxa>>
       ELSE /\ ctx' = [ctx EXCEPT ![mc[m].ctx].ref = RefInc(@)]
            /\ mxa' = [mxa EXCEPT ![id] = [used |-> FALSE, ptr |-> 0]]
            /\ thr' = [thr EXCEPT ![t].pc = "leave_engine", ![t].m = m,
                                  ![t].c = mc[m].ctx]
    /\ UNCHANGED <<xa, mc, file, ev, cm, gh>>

(* mutex_lock(&mc->ctx->mutex); rdma_leave_multicast; mutex_unlock *)
ucma_leave_engine(t) ==
    /\ Pc(t) = "leave_engine"
    /\ CtxMutexFree(thr[t].c)
    /\ McQuiet(thr[t].m)
    /\ mc' = [mc EXCEPT ![thr[t].m].joined = FALSE]
    /\ Goto(t, "leave_cs")
    /\ UNCHANGED <<ctx, xa, mxa, file, ev, cm, gh>>

(* under mc->ctx->file->mut: ucma_cleanup_mc_events(mc); list_del(&mc->list) *)
ucma_leave_cs(t) ==
    /\ Pc(t) = "leave_cs"
    /\ LET c == thr[t].c
           m == thr[t].m
           g == ctx[c].file
       IN
       /\ CanLock(t, c)
       /\ ev' = ucma_cleanup_mc_events(ev, file[g].event_list, m)
       /\ file' = MutAfterCS(
             [file EXCEPT ![g].event_list = McEventsNotOf(@, m)], t, c)
       /\ ctx' = [ctx EXCEPT ![c].mc_list = SelectSeqBy(@, McPtr \ {m})]
       /\ gh' = [gh EXCEPT !.wrongunlock = @ \/ Stale(t, c),
                           !.unlocked = @ \/ Stale(t, c)]
    /\ thr' = [thr EXCEPT ![t].pc = "leave_put", ![t].lk = 0]
    /\ UNCHANGED <<xa, mc, mxa, cm>>

(* ucma_put_ctx(mc->ctx); resp.events_reported = mc->events_reported;
   kfree(mc); the response *)
ucma_leave_put(t) ==
    /\ Pc(t) = "leave_put"
    /\ LET c == thr[t].c
           m == thr[t].m
       IN
       /\ ctx' = ucma_put_ctx(ctx, c)
       /\ mc' = [mc EXCEPT ![m].st = "freed", ![m].frees = @ + 1]
       /\ SetThr(t, [Finish(t, IF thr[t].op.fault THEN EFAULT ELSE OK)
                        EXCEPT !.er = mc[m].events_reported])
    /\ UNCHANGED <<xa, mxa, file, ev, cm, gh>>

(* ------------------------------ scenarios ----------------------------- *)
Boot(progs) ==
    /\ ctx = [p \in CtxPtr |-> CtxInit]
    /\ xa = [i \in CtxId |-> 0]
    /\ mc = [p \in McPtr |-> McInit]
    /\ mxa = [i \in McId |-> [used |-> FALSE, ptr |-> 0]]
    /\ file = [f \in Files |-> FileInit]
    /\ ev = [e \in EvPtr |-> EvInit]
    /\ cm = [x \in CmId |-> CmInit]
    /\ thr = [t \in Threads |->
                ThreadInit(IF t \in DOMAIN progs THEN progs[t] ELSE <<>>)]
    /\ gh = GhInit

Callback(k) == Cmd(k, 0, 0, 0, FALSE)

(* a callback whose kzalloc fails *)
CallbackNoMem(k) == CmdEngineFails(k, 0, 0, 0)

(* the steps shared by every scenario *)
ClientCore(t) ==
    \/ ucma_write(t)
    \/ ucma_create_id(t)
    \/ ucma_create_cm(t)

HandlerSteps(h) ==
    \/ engine_callback(h)
    \/ ucma_event_handler(h)
    \/ ucma_event_unlock(h)

TeardownSteps(t) ==
    \/ teardown_flush(t)
    \/ teardown_put(t)
    \/ teardown_wait(t)
    \/ teardown_rdma(t)
    \/ ucma_cleanup_multicast(t)
    \/ ucma_free_ctx_events(t)
    \/ ucma_free_ctx_release(t)

DestroySteps(t) ==
    \/ ucma_destroy_id(t)
    \/ ucma_destroy_mark(t)

CloseSteps(t) ==
    \/ ucma_close(t)
    \/ ucma_close_next(t)
    \/ ucma_close_wq(t)

CmdSteps(t) ==
    \/ ucma_cmd_get(t)
    \/ ucma_cmd_call(t)
    \/ ucma_cmd_put(t)

MigrateSteps(t) ==
    \/ ucma_migrate_get(t)
    \/ ucma_migrate_cur(t)
    \/ ucma_migrate_lock1(t)
    \/ ucma_migrate_lock2(t)
    \/ ucma_migrate_move(t)
    \/ ucma_migrate_resp(t)

WorkerCtxSteps(w) ==
    \/ worker_take(w)
    \/ ucma_close_id(w)
    \/ ucma_close_id_wait(w)
    \/ ucma_close_id_rdma(w)

(* flush_workqueue has to wait only where work is queued *)
FlushWaitSteps == \E t \in Clients : teardown_flush_wait(t)

JoinSteps(t) ==
    \/ ucma_join_get(t)
    \/ ucma_join_cs(t)
    \/ ucma_join_engine(t)
    \/ ucma_join_resp(t)

LeaveSteps(t) ==
    \/ ucma_leave_find(t)
    \/ ucma_leave_engine(t)
    \/ ucma_leave_cs(t)
    \/ ucma_leave_put(t)

(* ------------------------- use after kfree(ctx) ----------------------- *)
(* the positions at which a thread dereferences the context it works on *)
CtxPcs ==
    {"close_id", "close_id_wait", "close_id_rdma", "event_handler",
     "event_unlock", "destroy_mark", "td_flush", "td_flush_wait", "td_put",
     "td_wait", "td_rdma", "free_mc", "free_events", "free_release",
     "cmd_call", "cmd_put", "migrate_cur", "migrate_lock1", "migrate_lock2",
     "migrate_move",
     "migrate_resp", "join_cs", "join_engine", "join_resp", "leave_engine",
     "leave_cs", "leave_put"}

UsesFreedCtx(t) ==
    /\ Pc(t) \in CtxPcs
    /\ thr[t].c # 0
    /\ ctx[thr[t].c].st = "freed"

(* a read or write of freed memory: the thread may go on with what the memory
   still holds (the other actions) or fault here *)
use_after_free(t) ==
    /\ UsesFreedCtx(t)
    /\ Goto(t, "oops")
    /\ UNCHANGED <<ctx, xa, mc, mxa, file, ev, cm, gh>>

(* ---- deferred close against destroy across a migration (fd 1 -> fd 2) -- *)
ProgDeferred ==
    (1 :> <<Cmd("create_id", 1, 1, 0, FALSE), Cmd("close", 1, 0, 0, FALSE)>>)
    @@ (2 :> <<Cmd("migrate_id", 2, 0, 1, FALSE),
               Cmd("destroy_id", 2, 0, 0, FALSE)>>)
    @@ (11 :> <<Callback("DEVICE_REMOVAL")>>)

InitDeferred == Boot(ProgDeferred)

NextDeferred ==
    \/ \E t \in {1, 2} :
         \/ ClientCore(t)
         \/ DestroySteps(t)
         \/ TeardownSteps(t)
         \/ MigrateSteps(t)
         \/ CloseSteps(t)
    \/ HandlerSteps(11)
    \/ \E w \in Workers : WorkerCtxSteps(w)
    \/ FlushWaitSteps
    \/ \E t \in Threads : mutex_lock_sleep(t)
    \/ \E t \in Threads : use_after_free(t)

SpecDeferred == InitDeferred /\ [][NextDeferred]_vars

(* C1: the engine object owned by a context is released by rdma_destroy_id
   exactly once: never twice, and not zero times once the ucma_destroy_id or
   ucma_close that tore the context down is past its kfree(ctx) *)
C1_ReleasedExactlyOnce ==
    /\ \A x \in CmId : cm[x].destroys <= 1
    /\ \A c \in gh.torn :
         ctx[c].cm_id # 0 => cm[ctx[c].cm_id].destroys = 1

(* ---- destroy on fd 1 against close of fd 2 after a migration, with a ---- *)
(* ---- command in flight on the context                                 ---- *)
ProgDouble ==
    (1 :> <<Cmd("create_id", 1, 1, 0, FALSE), Cmd("destroy_id", 1, 0, 0, FALSE)>>)
    @@ (2 :> <<Cmd("migrate_id", 2, 0, 1, FALSE), Cmd("close", 2, 0, 0, FALSE)>>)
    @@ (3 :> <<Cmd("listen", 1, 0, 1, FALSE)>>)

InitDouble == Boot(ProgDouble)

NextDouble ==
    \/ \E t \in {1, 2, 3} :
         \/ ClientCore(t)
         \/ CmdSteps(t)
         \/ DestroySteps(t)
         \/ TeardownSteps(t)
         \/ MigrateSteps(t)
         \/ CloseSteps(t)
         \/ mutex_lock_sleep(t)
         \/ use_after_free(t)

SpecDouble == InitDouble /\ [][NextDouble]_vars

(* the positions between a lookup that took a reference (ucma_get_ctx,
   ucma_get_ctx_dev, the acquire of ucma_leave_multicast) and its
   ucma_put_ctx *)
HolderPcs ==
    {"cmd_call", "cmd_put", "migrate_cur", "migrate_lock1", "migrate_lock2",
     "migrate_move",
     "migrate_spin", "migrate_resp", "join_cs", "join_engine", "join_resp",
     "leave_engine", "leave_cs", "leave_put"}

Holds(t, c) == Pc(t) \in HolderPcs /\ thr[t].c = c

(* the threads about to call rdma_destroy_id(ctx->cm_id) *)
Releasing(t) == Pc(t) \in {"td_rdma", "close_id_rdma"}

(* C2: wherever rdma_destroy_id(ctx->cm_id) starts, the context's refcount
   is zero and no command that looked the context up is still before its
   ucma_put_ctx *)
C2_ReleaseOnlyWhenUnheld ==
    \A t \in Threads :
        Releasing(t) =>
            /\ ctx[thr[t].c].ref = 0
            /\ \A u \in Clients : ~Holds(u, thr[t].c)

(* ---- one file: a listener with backlog 1, callbacks, two readers, ---- *)
(* ---- then the explicit destroy of the listener                     ---- *)
ProgEvents ==
    (1 :> <<Cmd("create_id", 1, 1, 0, FALSE), Cmd("listen", 1, 0, 1, FALSE),
            Cmd("destroy_id", 1, 0, 0, FALSE)>>)
    @@ (2 :> <<Cmd("get_event", 1, 0, 0, TRUE), Cmd("get_event", 1, 0, 1, FALSE)>>)
    @@ (3 :> <<Cmd("get_event", 1, 0, 1, FALSE)>>)
    @@ (11 :> <<Callback("CONNECT_REQUEST"), Callback("ESTABLISHED")>>)
    @@ (12 :> <<Callback("CONNECT_REQUEST")>>)

InitEvents == Boot(ProgEvents)

NextEvents ==
    \/ \E t \in {1, 2, 3} :
         \/ ClientCore(t)
         \/ CmdSteps(t)
         \/ ucma_get_event(t)
         \/ ucma_get_event_wait(t)
         \/ DestroySteps(t)
         \/ TeardownSteps(t)
    \/ \E h \in Handlers : HandlerSteps(h)

SpecEvents == InitEvents /\ [][NextEvents]_vars

(* C3: on one file, successful ucma_get_event reads take the events in the
   order in which ucma_event_handler queued them: no event is read after an
   event that was queued later on the same file *)
C3_ReadInArrivalOrder == ~gh.ooo

C3_TwoEventsRead ==
    \E e1, e2 \in EvPtr :
        /\ e1 # e2
        /\ ev[e1].out = "read" /\ ev[e2].out = "read"
        /\ ctx[ev[e1].ctx].file = ctx[ev[e2].ctx].file
        /\ ev[e1].stamp < ev[e2].stamp

(* a listener's connection requests that were admitted by the callback and
   are still on the queue, not yet handed to the client *)
Unaccepted(c) ==
    {e \in EvPtr : /\ ev[e].st = "live"
                   /\ ev[e].kind = "CONNECT_REQUEST"
                   /\ ev[e].ctx = c
                   /\ e \in Range(file[ctx[c].file].event_list)}

(* C6: a listener whose backlog was set to N never has more than N admitted
   connection requests waiting to be accepted *)
C6_BacklogBound ==
    \A c \in CtxPtr :
        ctx[c].st = "live" /\ ctx[c].listenN > 0 =>
            Cardinality(Unaccepted(c)) <= ctx[c].listenN

(* C10: a successful ucma_destroy_id answers the number of events of the
   context (its groups' events included) that ucma_get_event delivered, and
   ctx->events_reported never decreases while the context lives *)
C10_EventsReported ==
    [][/\ \A t \in Clients :
            (/\ thr[t].op.op = "destroy_id"
             /\ Pc(t) = "free_release"
             /\ thr'[t].pc = "idle"
             /\ thr'[t].ret = OK)
            => thr'[t].er = ctx[thr[t].c].delivered
       /\ \A c \in CtxPtr :
            ctx[c].st = "live" /\ ctx'[c].st = "live"
            => ctx'[c].events_reported >= ctx[c].events_reported]_vars

C10_DestroyAfterDelivery ==
    \E t \in Clients :
        /\ Pc(t) = "idle"
        /\ thr[t].c \in gh.torn
        /\ thr[t].ret = OK
        /\ thr[t].er >= 1
        /\ thr[t].er = ctx[thr[t].c].delivered

(* ---- one file: a bound, listening context with a group, a connection ---- *)
(* ---- request, a group event and a device removal, a reader, then the  ---- *)
(* ---- close of the file                                                ---- *)
ProgClose ==
    (1 :> <<Cmd("create_id", 1, 1, 0, FALSE), Cmd("bind", 1, 0, 0, FALSE),
            Cmd("listen", 1, 0, 1, FALSE), Cmd("join", 1, 0, 7, FALSE)>>)
    @@ (2 :> <<Cmd("get_event", 1, 0, 1, FALSE), Cmd("close", 1, 0, 0, FALSE)>>)
    @@ (11 :> <<Callback("CONNECT_REQUEST"), Callback("MULTICAST_JOIN")>>)
    @@ (12 :> <<Callback("DEVICE_REMOVAL")>>)

InitClose == Boot(ProgClose)

NextClose ==
    \/ \E t \in {1, 2} :
         \/ ClientCore(t)
         \/ CmdSteps(t)
         \/ JoinSteps(t)
         \/ ucma_get_event(t)
         \/ CloseSteps(t)
         \/ TeardownSteps(t)
    \/ \E h \in Handlers : HandlerSteps(h)
    \/ WorkerCtxSteps(WorkerOf(1))
    \/ ucma_close_event_id(WorkerOf(1))
    \/ FlushWaitSteps

SpecClose == InitClose /\ [][NextClose]_vars

(* what a closed file owned *)
OwnedCtx(f) == {c \in CtxPtr : ctx[c].st # "none" /\ ctx[c].file = f}
OwnedMc(f) == {m \in McPtr : mc[m].st # "none" /\ mc[m].ctx \in OwnedCtx(f)}
OwnedEv(f) == {e \in EvPtr : ev[e].st # "none" /\ ev[e].ctx \in OwnedCtx(f)}

(* C7: once ucma_close has returned, every context of the file is out of
   ctx_table and freed, every group of those contexts is out of
   multicast_table and freed, every event that was queued is freed, and the
   cm_id of every unread connection request is released *)
C7_CloseFreesAll ==
    \A f \in Files :
        file[f].st = "closed" =>
            /\ file[f].ctx_list = <<>> /\ file[f].event_list = <<>>
            /\ \A c \in OwnedCtx(f) :
                 ctx[c].st = "freed" /\ \A i \in CtxId : xa[i] # c
            /\ \A m \in OwnedMc(f) :
                 mc[m].st = "freed" /\ \A i \in McId : mxa[i].ptr # m
            /\ \A e \in OwnedEv(f) :
                 /\ ev[e].st = "freed"
                 /\ (ev[e].kind = "CONNECT_REQUEST" /\ ev[e].out # "read")
                      => cm[ev[e].cm_id].st = "dead"

C7_ClosedWithUnread ==
    /\ file[1].st = "closed"
    /\ \E c \in OwnedCtx(1) : ctx[c].frees = 1
    /\ \E m \in OwnedMc(1) : mc[m].frees = 1
    /\ \E e \in OwnedEv(1) :
         /\ ev[e].kind = "CONNECT_REQUEST"
         /\ ev[e].out = "destroy"
         /\ cm[ev[e].cm_id].destroys = 1

(* ---- one file: a group is joined and left while its events arrive and ---- *)
(* ---- are read, and the parent context is destroyed, closed by a device ---- *)
(* ---- removal, or torn down by the close of the file                    ---- *)
ProgMcast ==
    (1 :> <<Cmd("create_id", 1, 1, 0, FALSE), Cmd("bind", 1, 0, 0, FALSE),
            Cmd("join", 1, 0, 7, FALSE), Cmd("leave", 1, 0, 0, FALSE)>>)
    @@ (2 :> <<Cmd("get_event", 1, 0, 1, FALSE), Cmd("close", 1, 0, 0, FALSE)>>)
    @@ (3 :> <<Cmd("destroy_id", 1, 0, 0, FALSE)>>)
    @@ (11 :> <<Callback("MULTICAST_JOIN"), Callback("MULTICAST_JOIN")>>)
    @@ (12 :> <<Callback("ESTABLISHED"), Callback("DEVICE_REMOVAL")>>)

InitMcast == Boot(ProgMcast)

NextMcast ==
    \/ \E t \in {1, 2, 3} :
         \/ ClientCore(t)
         \/ CmdSteps(t)
         \/ JoinSteps(t)
         \/ LeaveSteps(t)
         \/ ucma_get_event(t)
         \/ ucma_get_event_oops(t)
         \/ DestroySteps(t)
         \/ CloseSteps(t)
         \/ TeardownSteps(t)
    \/ \E h \in Handlers : HandlerSteps(h)
    \/ WorkerCtxSteps(WorkerOf(1))
    \/ FlushWaitSteps

SpecMcast == InitMcast /\ [][NextMcast]_vars

(* C8: the step of ucma_leave_multicast that cleans the queue takes out of
   the owning file's queue exactly the events of the group and keeps every
   other queued event in place and in order; a successful leave answers the
   group's events_reported, the number of its events that were delivered *)
C8_LeaveFrame ==
    [][\A t \in Clients :
         /\ (Pc(t) = "leave_cs" /\ thr'[t].pc = "leave_put") =>
              LET f == ctx[thr[t].c].file
                  q == file[f].event_list
                  qn == file'[f].event_list
              IN
              /\ \A e \in Range(q) : (e \in Range(qn)) <=> (ev[e].mc # thr[t].m)
              /\ qn = SelectSeqBy(q, Range(qn))
              /\ \A g \in Files \ {f} : file'[g].event_list = file[g].event_list
         /\ (Pc(t) = "leave_put" /\ thr'[t].pc = "idle" /\ thr'[t].ret = OK) =>
              thr'[t].er = mc[thr[t].m].delivered]_vars

C8_LeftWithEvents ==
    \E t \in Clients :
        /\ Pc(t) = "idle"
        /\ thr[t].ret = OK
        /\ thr[t].m # 0
        /\ mc[thr[t].m].st = "freed"
        /\ thr[t].er >= 1
        /\ thr[t].er = mc[thr[t].m].delivered
        /\ \E e \in EvPtr : ev[e].mc = thr[t].m /\ ev[e].out = "leave"
        /\ \E e \in Range(file[1].event_list) : ev[e].mc = 0

(* the positions at which a thread dereferences the group it works on *)
McPcs == {"join_engine", "join_resp", "leave_engine", "leave_cs", "leave_put"}

UsesFreedMc(t) ==
    /\ thr[t].m # 0
    /\ \/ Pc(t) \in McPcs
       \/ t \in Handlers /\ Pc(t) \in {"event_handler", "event_unlock"}
    /\ mc[thr[t].m].st = "freed"

(* C9: whatever the interleaving of ucma_leave_multicast with the teardown
   of the parent context, the group and the context are each freed at most
   once and neither is read or written after its kfree: a leave that got
   past its lookup finishes before kfree(ctx), any other leave ends at the
   lookup with an error *)
C9_LeaveVersusTeardown ==
    /\ \A m \in McPtr : mc[m].frees <= 1
    /\ \A c \in CtxPtr : ctx[c].frees <= 1
    /\ \A t \in Threads : ~UsesFreedCtx(t) /\ ~UsesFreedMc(t)
    /\ ~gh.uaf

(* ---- two files: contexts with queued events on both, callbacks, and ---- *)
(* ---- the migration of a context from fd 1 to fd 2                    ---- *)
ProgMigrate ==
    (1 :> <<Cmd("create_id", 1, 1, 0, FALSE), Cmd("create_id", 1, 2, 0, FALSE)>>)
    @@ (2 :> <<Cmd("create_id", 2, 3, 0, FALSE),
               Cmd("migrate_id", 2, 0, 1, FALSE)>>)
    @@ (11 :> <<Callback("ESTABLISHED"), Callback("ESTABLISHED")>>)
    @@ (12 :> <<Callback("ESTABLISHED"), Callback("ESTABLISHED")>>)

InitMigrate == Boot(ProgMigrate)

NextMigrate ==
    \/ \E t \in {1, 2} :
         \/ ClientCore(t)
         \/ MigrateSteps(t)
    \/ \E h \in Handlers :
         \/ HandlerSteps(h)
         \/ mutex_lock_sleep(h)

SpecMigrate == InitMigrate /\ [][NextMigrate]_vars

(* C4: the move of ucma_migrate_id from file A to another file B appends to
   B's queue exactly the events of the context that were on A's queue, in
   their order; what B's queue held stays ahead of them, and the events of
   other contexts stay on A in their order *)
C4_MoveAppendsInOrder ==
    [][\A t \in Clients :
         (/\ Pc(t) = "migrate_move"
          /\ thr'[t].pc = "migrate_resp"
          /\ ctx[thr[t].c].file # thr[t].op.f)
         => LET c == thr[t].c
                A == ctx[c].file
                B == thr[t].op.f
                moved == {e \in Range(file[A].event_list) : ev[e].ctx = c}
            IN
            /\ file'[B].event_list =
                  file[B].event_list \o SelectSeqBy(file[A].event_list, moved)
            /\ file'[A].event_list =
                  SelectSeqBy(file[A].event_list, EvPtr \ moved)]_vars

C4_MovedBehindExisting ==
    \E t \in Clients :
        /\ Pc(t) = "migrate_resp"
        /\ Len(thr[t].lst) >= 2
        /\ file[1].event_list # <<>>
        /\ \E pre \in {SubSeq(file[2].event_list, 1, n) :
                          n \in 1..Len(file[2].event_list)} :
              file[2].event_list = pre \o thr[t].lst

(* an event that a callback put on a queue and that nothing has taken off *)
StillQueued(e) == ev[e].st = "live" /\ ev[e].out = ""

Settled(c) ==
    /\ \A h \in Handlers : Pc(h) = "idle" \/ thr[h].c # c
    /\ \A t \in Clients : thr[t].op.op = "migrate_id" => thr[t].c # c

(* C5: once the callbacks of a context and its migration have finished,
   every event of the context that is still queued is on the queue of the
   file that owns the context, and on no other queue *)
C5_NoEventLostOrStranded ==
    \A c \in CtxPtr :
        ctx[c].st = "live" /\ Settled(c) =>
            \A e \in EvPtr :
                StillQueued(e) /\ ev[e].ctx = c =>
                    /\ e \in Range(file[ctx[c].file].event_list)
                    /\ \A f \in Files \ {ctx[c].file} :
                         e \notin Range(file[f].event_list)

(* ---- one file: creates, a listener whose connect request is adopted ---- *)
(* ---- by ucma_get_event, and destroys that free ids for reuse         ---- *)
ProgRegistry ==
    (1 :> <<Cmd("create_id", 1, 1, 0, FALSE), Cmd("listen", 1, 0, 1, FALSE),
            Cmd("destroy_id", 1, 0, 0, FALSE)>>)
    @@ (2 :> <<Cmd("create_id", 1, 2, 0, FALSE), Cmd("destroy_id", 1, 1, 0, FALSE),
               Cmd("create_id", 1, 3, 0, FALSE)>>)
    @@ (3 :> <<Cmd("get_event", 1, 0, 1, FALSE)>>)
    @@ (11 :> <<Callback("CONNECT_REQUEST")>>)

InitRegistry == Boot(ProgRegistry)

NextRegistry ==
    \/ \E t \in {1, 2, 3} :
         \/ ClientCore(t)
         \/ CmdSteps(t)
         \/ ucma_get_event(t)
         \/ DestroySteps(t)
         \/ TeardownSteps(t)
    \/ HandlerSteps(11)

SpecRegistry == InitRegistry /\ [][NextRegistry]_vars

(* C11: ctx_table never gives the index of a registered context to another
   context (xa_alloc takes a free index only), every entry holds a context
   whose id is the entry's index, no context is entered under two indices,
   and ctx->id never changes once xa_alloc has set it *)
C11_RegistryIds ==
    [][/\ \A i \in CtxId : xa[i] # 0 /\ xa'[i] # 0 => xa'[i] = xa[i]
       /\ \A i \in CtxId : xa'[i] # 0 => ctx'[xa'[i]].id = i
       /\ \A i, j \in CtxId : i # j /\ xa'[i] # 0 => xa'[i] # xa'[j]
       /\ \A c \in CtxPtr : ctx[c].st # "none" => ctx'[c].id = ctx[c].id]_vars

(* the id of a destroyed context is in use again by a later context, next to
   a context that ucma_get_event adopted *)
C11_IdReusedAfterDestroy ==
    \E c, d, a \in CtxPtr :
        /\ ctx[c].st = "freed" /\ ctx[d].st = "live"
        /\ ctx[c].id = ctx[d].id /\ xa[ctx[d].id] = d
        /\ ctx[a].st = "live" /\ xa[ctx[a].id] = a /\ a # d
        /\ ctx[a].cm_id # 0 /\ cm[ctx[a].cm_id].parent # 0

(* ---- two files: lookups of an id that is unknown, of another file's  ---- *)
(* ---- context and of a context whose cm_id is not set yet, next to    ---- *)
(* ---- creates that fail in the engine or at the response              ---- *)
ProgLookup ==
    (1 :> <<Cmd("create_id", 1, 1, 0, FALSE), Cmd("listen", 1, 0, 1, FALSE)>>)
    @@ (2 :> <<Cmd("bind", 2, 0, 0, FALSE), Cmd("create_id", 2, 2, 0, TRUE),
               Cmd("destroy_id", 2, 0, 0, FALSE)>>)
    @@ (3 :> <<Cmd("listen", 1, 0, 2, FALSE),
               CmdEngineFails("create_id", 1, 3, 0),
               Cmd("destroy_id", 1, 1, 0, FALSE)>>)

InitLookup == Boot(ProgLookup)

NextLookup ==
    \E t \in {1, 2, 3} :
        \/ ClientCore(t)
        \/ CmdSteps(t)
        \/ DestroySteps(t)
        \/ TeardownSteps(t)

SpecLookup == InitLookup /\ [][NextLookup]_vars

(* the positions at which a command looks its context up, and the file the
   lookup is made for *)
LookupPcs == {"cmd_get", "join_get", "migrate_get", "destroy_id"}

LookupFile(t) ==
    IF Pc(t) = "migrate_get" THEN thr[t].op.b ELSE thr[t].op.f

(* C12: a lookup of an id without an entry in ctx_table ends the command
   with -ENOENT, a lookup of an entry whose ctx->file is not the caller's
   file or whose ctx->cm_id is not set yet ends it with -EINVAL, and neither
   changes a refcount or anything else but the caller's own return *)
C12_LookupErrors ==
    [][\A t \in Clients :
         (/\ Pc(t) \in LookupPcs
          /\ thr'[t] # thr[t]
          /\ file[LookupFile(t)].st = "open"
          /\ \/ xa[thr[t].op.a] = 0
             \/ ctx[xa[thr[t].op.a]].file # LookupFile(t)
             \/ ctx[xa[thr[t].op.a]].cm_id = 0)
         => /\ thr'[t].pc = "idle"
            /\ thr'[t].ret = IF xa[thr[t].op.a] = 0 THEN ENOENT ELSE EINVAL
            /\ UNCHANGED <<ctx, xa, mc, mxa, file, ev, cm, gh>>]_vars

(* a bind from file 2 and a listen from file 1 were both refused with
   -EINVAL while the context of file 1 was between xa_alloc and the
   assignment of ctx->cm_id *)
C12_RefusedBeforeAttach ==
    /\ Pc(1) = "create_cm"
    /\ Pc(2) = "idle" /\ thr[2].ret = EINVAL /\ Len(thr[2].prog) = 2
    /\ Pc(3) = "idle" /\ thr[3].ret = EINVAL /\ Len(thr[3].prog) = 2
    /\ ctx[thr[1].c].ref = 1

(* C18: where ucma_create_id fails after ucma_alloc_ctx (the engine object
   cannot be made, or the response faults), its return leaves ctx_table
   without the context's id and otherwise as it was, every ctx_list without
   the context and otherwise as it was, the context freed once, and the
   engine object, where one was made, released by one rdma_destroy_id *)
C18_CreateUnwinds ==
    [][\A t \in Clients :
         (/\ Pc(t) = "create_cm"
          /\ thr'[t].pc = "idle"
          /\ thr'[t].ret # OK)
         => LET c == thr[t].c IN
            /\ xa[ctx[c].id] = c
            /\ xa' = [xa EXCEPT ![ctx[c].id] = 0]
            /\ \A f \in Files :
                 file'[f] = [file[f] EXCEPT
                                !.ctx_list = SelectSeqBy(@, CtxPtr \ {c})]
            /\ ctx' = [ctx EXCEPT ![c].st = "freed", ![c].frees = 1]
            /\ \A x \in CmId :
                 IF cm[x] # cm'[x]
                 THEN /\ cm[x].st = "none" /\ cm'[x].st = "dead"
                      /\ cm'[x].context = c /\ cm'[x].destroys = 1
                 ELSE cm[x].st = "none" \/ cm[x].context # c
            /\ (thr[t].op.fault /\ ~thr[t].op.fail /\ FreeCmIds # {})
                 => \E x \in CmId : cm'[x] # cm[x]
            /\ UNCHANGED <<mc, mxa, ev>>]_vars

(* both failing creates have returned, one with the engine's error and one
   with the fault of the response, next to a context that stays registered *)
C18_BothCreatesFailed ==
    /\ Pc(2) = "idle" /\ thr[2].ret = EFAULT /\ Len(thr[2].prog) = 1
    /\ Pc(3) = "idle" /\ thr[3].ret = ENOMEM /\ Len(thr[3].prog) = 1
    /\ \E c \in CtxPtr : ctx[c].st = "live" /\ xa[ctx[c].id] = c /\ ctx[c].cm_id # 0
    /\ \E x \in CmId : cm[x].st = "dead" /\ cm[x].destroys = 1
    /\ Cardinality({c \in CtxPtr : ctx[c].st = "freed"}) >= 2

(* C13: once ucma_removal_event_handler has set ctx->closing, every
   ucma_get_ctx of the context by its own file ends the command with -EIO
   and changes nothing, and the one step that still raises the refcount of
   a closing context is the refcount_inc_not_zero of ucma_leave_multicast *)
C13_ClosingRefusesGetCtx ==
    [][/\ \A t \in Clients :
            (/\ Pc(t) \in LookupPcs \ {"destroy_id"}
             /\ thr'[t] # thr[t]
             /\ file[LookupFile(t)].st = "open"
             /\ xa[thr[t].op.a] # 0
             /\ ctx[xa[thr[t].op.a]].file = LookupFile(t)
             /\ ctx[xa[thr[t].op.a]].cm_id # 0
             /\ ctx[xa[thr[t].op.a]].closing = 1)
            => /\ thr'[t].pc = "idle"
               /\ thr'[t].ret = EIO
               /\ UNCHANGED <<ctx, xa, mc, mxa, file, ev, cm, gh>>
       /\ \A c \in CtxPtr :
            (ctx[c].closing = 1 /\ ctx'[c].ref > ctx[c].ref)
            => \E t \in Clients :
                 /\ Pc(t) = "leave_find"
                 /\ thr'[t].pc = "leave_engine"
                 /\ thr'[t].c = c]_vars

(* a command was refused with -EIO on a context that is marked closing *)
C13_RefusedWhileClosing ==
    \E t \in Clients :
        /\ Pc(t) = "idle" /\ thr[t].ret = EIO
        /\ \E c \in CtxPtr : ctx[c].closing = 1 /\ ctx[c].st = "live"

(* C13 as the specification words it: once ctx->closing is set the refcount
   only goes down and no command starts an engine call on the context *)
C13_ClosingRefOnlyFalls ==
    [][\A c \in CtxPtr :
         ctx[c].closing = 1 =>
            /\ ctx'[c].ref <= ctx[c].ref
            /\ \A t \in Clients :
                 thr'[t].c = c /\ thr'[t].pc = "leave_engine"
                    => thr[t].pc = "leave_engine"]_vars

(* ---- one file: writes whose hdr.cmd is past the table, names the NULL ---- *)
(* ---- slot or a handler, next to ordinary commands                     ---- *)
ProgDispatch ==
    (1 :> <<Cmd("write", 1, 23, 0, FALSE), Cmd("write", 1, 13, 0, FALSE),
            Cmd("write", 1, 0, 0, FALSE), Cmd("get_event", 1, 0, 1, FALSE)>>)
    @@ (2 :> <<Cmd("write", 1, 13, 1, FALSE), Cmd("write", 1, 40, 0, FALSE),
               Cmd("create_id", 1, 1, 0, FALSE), Cmd("listen", 1, 0, 1, FALSE)>>)

InitDispatch == Boot(ProgDispatch)

NextDispatch ==
    \E t \in {1, 2} :
        \/ ClientCore(t)
        \/ CmdSteps(t)
        \/ ucma_get_event(t)

SpecDispatch == InitDispatch /\ [][NextDispatch]_vars

(* a write() of t is taking place, with the header w *)
Writes(t, w) ==
    /\ Pc(t) = "idle"
    /\ thr[t].prog # <<>>
    /\ w = Head(thr[t].prog)
    /\ thr'[t] # thr[t]

(* C14: a write whose hdr.cmd is not below ARRAY_SIZE(ucma_cmd_table)
   returns -EINVAL, a write whose hdr.cmd names the NULL slot returns
   -ENOSYS when its lengths are right and -EINVAL when hdr.in does not fit;
   in each case no handler runs and nothing but the return changes *)
C14_DispatchRejects ==
    [][\A t \in Clients :
         LET w == Head(thr[t].prog) IN
         (/\ Writes(t, w)
          /\ w.op = "write"
          /\ \/ w.a >= ARRAY_SIZE
             \/ ucma_cmd_table[w.a + 1] = NULL)
         => /\ thr'[t].pc = "idle"
            /\ thr'[t].ret = IF w.a >= ARRAY_SIZE \/ w.b = 1
                             THEN EINVAL ELSE ENOSYS
            /\ UNCHANGED <<ctx, xa, mc, mxa, file, ev, cm, gh>>]_vars

(* writes of hdr.cmd 23 and 40 and of the NULL slot, with and without room
   for hdr.in, were all answered, and a write of hdr.cmd 0 made a context *)
C14_AllRejectionsSeen ==
    /\ thr[1].prog = <<>> /\ thr[2].prog = <<>>
    /\ Pc(1) = "idle" /\ Pc(2) = "idle"
    /\ \E c \in CtxPtr : ctx[c].st = "live" /\ ctx[c].uid = 0 /\ ctx[c].cm_id # 0

(* C14 as the specification words it: -ENOSYS for a hdr.cmd outside the
   table as well as for the NULL slot *)
C14_NotSupportedForAll ==
    [][\A t \in Clients :
         LET w == Head(thr[t].prog) IN
         (/\ Writes(t, w)
          /\ w.op = "write"
          /\ \/ w.a >= ARRAY_SIZE
             \/ ucma_cmd_table[w.a + 1] = NULL)
         => /\ thr'[t].pc = "idle"
            /\ thr'[t].ret = ENOSYS
            /\ UNCHANGED <<ctx, xa, mc, mxa, file, ev, cm, gh>>]_vars

(* ---- two files: readers and a poller asleep on file->poll_wait while ---- *)
(* ---- callbacks queue events and a migration brings the context of    ---- *)
(* ---- file 1, with its events, to file 2                              ---- *)
ProgWait ==
    (1 :> <<Cmd("create_id", 1, 1, 0, FALSE),
            CmdSignalled("get_event", 1, 0, 0)>>)
    @@ (2 :> <<Cmd("migrate_id", 2, 0, 1, FALSE)>>)
    @@ (3 :> <<Cmd("get_event", 2, 0, 0, FALSE)>>)
    @@ (4 :> <<Cmd("poll", 2, 0, 0, FALSE), Cmd("poll", 2, 0, 1, FALSE)>>)
    @@ (11 :> <<Callback("ESTABLISHED"), Callback("ESTABLISHED")>>)

InitWait == Boot(ProgWait)

NextWait ==
    \/ \E t \in Clients :
         \/ ClientCore(t)
         \/ MigrateSteps(t)
         \/ ucma_get_event(t)
         \/ ucma_get_event_wait(t)
         \/ ucma_get_event_signal(t)
         \/ do_poll(t)
         \/ ucma_poll(t)
    \/ HandlerSteps(11)
    \/ mutex_lock_sleep(11)

(* whatever can run does run in the end: the scheduler starves no thread
   for ever *)
SpecWait == InitWait /\ [][NextWait]_vars /\ WF_vars(NextWait)

(* C15: ucma_poll gives the readable mask exactly when file->event_list is
   not empty at the moment it looks, and the step of ucma_event_handler that
   puts an event on a file's queue leaves no thread asleep on that file's
   poll_wait *)
C15_PollAndWakeUp ==
    [][/\ \A t \in Clients :
            (Pc(t) = "poll" /\ thr'[t] # thr[t])
            => LET f == thr[t].op.f IN
               /\ (thr'[t].pc = "idle" /\ thr'[t].ret = EPOLLIN)
                     <=> file[f].event_list # <<>>
               /\ thr'[t].pc = "poll_sleep"
                     => file[f].event_list = <<>>
       /\ \A h \in Handlers : \A f \in Files :
            (/\ Pc(h) = "event_handler"
             /\ thr'[h].pc = "event_unlock"
             /\ Len(file'[f].event_list) > Len(file[f].event_list))
            => \A t \in Threads : ~Sleeps(thr', t, f)]_vars

(* the poller slept on the empty queue of file 2, was woken and was told
   that the file is readable *)
C15_PollerWokenAndReadable ==
    /\ Pc(4) = "idle"
    /\ thr[4].ret = EPOLLIN
    /\ thr[4].tmp >= 1
    /\ \E e \in EvPtr : ev[e].st = "live" /\ e \in Range(file[2].event_list)

(* the reader t sleeps in wait_event_interruptible although its file's queue
   holds an event *)
SleepsOnEvents(t) ==
    /\ Pc(t) = "get_event_sleep"
    /\ file[thr[t].op.f].event_list # <<>>

(* C16: on an empty queue ucma_get_event under O_NONBLOCK returns -EAGAIN at
   once and changes nothing; without O_NONBLOCK it returns only with a queue
   that is not empty or with -ERESTARTSYS, and a reader asleep while the
   queue holds an event does not stay asleep for ever unless the queue is
   emptied again *)
C16_BlockingReadReturns ==
    /\ [][\A t \in Clients :
            (Pc(t) \in {"get_event", "get_event_wait", "get_event_sleep"}
             /\ thr'[t].pc = "idle")
            => IF thr[t].op.b = 1 /\ file[thr[t].op.f].event_list = <<>>
               THEN /\ thr'[t].ret = EAGAIN
                    /\ UNCHANGED <<ctx, xa, mc, mxa, file, ev, cm, gh>>
               ELSE \/ file[thr[t].op.f].event_list # <<>>
                    \/ thr'[t].ret = ERESTARTSYS]_vars
    /\ \A t \in Clients :
         SleepsOnEvents(t) ~> ~SleepsOnEvents(t)

(* the contexts and groups that the command of t made: the context of a
   create, what ucma_get_event allocates in this step, the group of a join *)
MadeCtx(t) ==
    (IF thr[t].op.op = "create_id" /\ Pc(t) = "create_cm"
     THEN {thr[t].c} ELSE {})
    \cup (IF thr[t].op.op = "get_event"
          THEN {c \in CtxPtr : ctx[c].st = "none" /\ ctx'[c].st # "none"}
          ELSE {})

MadeMc(t) ==
    IF thr[t].op.op = "join" /\ Pc(t) \in {"join_engine", "join_resp"}
    THEN {thr[t].m} ELSE {}

(* C17: where a command returns an error, no context that it made is left
   in ctx_table or on a ctx_list, and no group that it made is left in
   multicast_table or on an mc_list *)
C17_FailedCommandLeavesNothing ==
    [][\A t \in Clients :
         (/\ Pc(t) # "idle"
          /\ thr'[t].pc = "idle"
          /\ thr[t].op.op \in {"create_id", "get_event", "join"}
          /\ thr'[t].ret # OK)
         => /\ \A c \in MadeCtx(t) :
                 /\ \A i \in CtxId : xa'[i] # c
                 /\ \A f \in Files : c \notin Range(file'[f].ctx_list)
            /\ \A m \in MadeMc(t) :
                 /\ \A i \in McId : mxa'[i].ptr # m
                 /\ ~mxa'[mc[m].id].used
                 /\ \A c \in CtxPtr : m \notin Range(ctx'[c].mc_list)]_vars

(* ---- two files: migrations in both directions, two of them of the    ---- *)
(* ---- same context, while callbacks queue events                      ---- *)
ProgCross ==
    (1 :> <<Cmd("create_id", 1, 1, 0, FALSE),
            Cmd("migrate_id", 1, 1, 2, FALSE)>>)
    @@ (2 :> <<Cmd("create_id", 2, 2, 0, FALSE),
               Cmd("migrate_id", 2, 0, 1, FALSE)>>)
    @@ (3 :> <<Cmd("migrate_id", 2, 0, 1, FALSE)>>)
    @@ (11 :> <<Callback("ESTABLISHED"), Callback("ESTABLISHED")>>)

InitCross == Boot(ProgCross)

NextCross ==
    \/ \E t \in {1, 2, 3} :
         \/ ClientCore(t)
         \/ MigrateSteps(t)
    \/ HandlerSteps(11)
    \/ mutex_lock_sleep(11)

(* whatever can run does run in the end *)
SpecCross == InitCross /\ [][NextCross]_vars /\ WF_vars(NextCross)

(* the positions of ucma_migrate_id from the lookup to the response *)
MigratePcs ==
    {"migrate_cur", "migrate_lock1", "migrate_lock2", "migrate_move",
     "migrate_spin", "migrate_resp"}

(* C19: the first file mutex a migration takes is the one of the lower of
   its two files and the second the one of the higher, whichever of them is
   the source, and every migration that got past its lookup reaches its
   return *)
C19_MigrationsComplete ==
    /\ [][\A t \in Clients :
            LET lo == FirstLocked(thr[t].x, thr[t].op.f)
                hi == SecondLocked(thr[t].x, thr[t].op.f)
            IN
            /\ (Pc(t) = "migrate_lock1" /\ thr'[t].pc = "migrate_lock2") =>
                  (lo < hi /\ file[lo].mut = 0 /\ file'[lo].mut = t
                   /\ file'[hi].mut = file[hi].mut)
            /\ (Pc(t) = "migrate_lock2" /\ thr'[t].pc = "migrate_move") =>
                  (lo < hi /\ file[hi].mut = 0 /\ file'[hi].mut = t
                   /\ file'[lo].mut = file[lo].mut)]_vars
    /\ \A t \in Clients : (Pc(t) \in MigratePcs) ~> (Pc(t) = "idle")

(* ---- one context, three threads: bind, listen, join and leave on it  ---- *)
ProgEngine ==
    (1 :> <<Cmd("create_id", 1, 1, 0, FALSE), Cmd("bind", 1, 0, 0, FALSE),
            Cmd("join", 1, 0, 7, FALSE), Cmd("leave", 1, 0, 0, FALSE)>>)
    @@ (2 :> <<Cmd("listen", 1, 0, 1, FALSE), Cmd("bind", 1, 0, 0, FALSE),
               CmdEngineFails("join", 1, 0, 8)>>)
    @@ (3 :> <<Cmd("bind", 1, 0, 0, FALSE), Cmd("listen", 1, 0, 2, FALSE),
               Cmd("leave", 1, 1, 0, TRUE)>>)

InitEngine == Boot(ProgEngine)

NextEngine ==
    \E t \in {1, 2, 3} :
       \/ ClientCore(t)
       \/ CmdSteps(t)
       \/ JoinSteps(t)
       \/ LeaveSteps(t)

SpecEngine == InitEngine /\ [][NextEngine]_vars

(* the thread is between mutex_lock(&ctx->mutex) and mutex_unlock of a
   command on context c: its engine call is under way *)
InEngineCall(t, c) == Pc(t) = "cmd_put" /\ thr[t].c = c

(* C20: a thread whose engine call on a context is under way holds that
   context's mutex, so no two threads are inside engine calls on one context,
   and the engine calls of join and of leave are made only while no other
   call on their context is under way *)
C20_EngineCallsSerialised ==
    /\ [](\A c \in CtxPtr : \A t \in Clients :
            InEngineCall(t, c) =>
               /\ ctx[c].mutex = t
               /\ \A u \in Clients \ {t} : ~InEngineCall(u, c))
    /\ [][\A t \in Clients :
            (Pc(t) \in {"join_engine", "leave_engine", "cmd_call"}
             /\ thr'[t].pc # Pc(t)) =>
               \A u \in Clients \ {t} : ~InEngineCall(u, thr[t].c)]_vars

(* two commands on one context meet: one is inside its engine call while
   another has its reference and waits for the mutex, and a join of the
   context waits for it as well *)
C20_CallsContend ==
    \E t, u, v \in Clients :
       /\ InEngineCall(t, thr[t].c)
       /\ Pc(u) = "cmd_call" /\ thr[u].c = thr[t].c
       /\ Pc(v) = "join_engine" /\ thr[v].c = thr[t].c

(* ---- destroy and close against a removal, the deferred close, reads  ---- *)
(* ---- and a migration (fd 1 -> fd 2), every thread running on          ---- *)
ProgTerm ==
    (1 :> <<Cmd("create_id", 1, 1, 0, FALSE), Cmd("close", 1, 0, 0, FALSE)>>)
    @@ (2 :> <<Cmd("migrate_id", 2, 0, 1, FALSE),
               Cmd("destroy_id", 2, 0, 0, FALSE)>>)
    @@ (3 :> <<Cmd("get_event", 1, 0, 1, FALSE),
               Cmd("get_event", 2, 0, 1, FALSE)>>)
    @@ (11 :> <<Callback("DEVICE_REMOVAL")>>)
    @@ (12 :> <<Callback("ESTABLISHED")>>)

InitTerm == Boot(ProgTerm)

NextTerm ==
    \/ \E t \in {1, 2, 3} :
         \/ ClientCore(t)
         \/ DestroySteps(t)
         \/ TeardownSteps(t)
         \/ MigrateSteps(t)
         \/ CloseSteps(t)
         \/ ucma_get_event(t)
    \/ \E h \in Handlers : HandlerSteps(h)
    \/ \E w \in Workers : WorkerCtxSteps(w)
    \/ FlushWaitSteps
    \/ \E t \in Threads : mutex_lock_sleep(t)
    \/ \E t \in Threads : use_after_free(t)

(* whatever can run does run in the end *)
SpecTerm == InitTerm /\ [][NextTerm]_vars /\ WF_vars(NextTerm)

(* the positions of ucma_destroy_id and of ucma_close from the lookup to the
   return *)
DestroyPcs ==
    {"destroy_id", "destroy_mark", "td_flush", "td_flush_wait", "td_put",
     "td_wait", "td_rdma", "free_mc", "free_events", "free_release",
     "close_next", "close_wq"}

(* C21: every ucma_destroy_id and every ucma_close that has started reaches
   its return *)
C21_DestroyAndCloseReturn ==
    \A t \in Clients : (Pc(t) \in DestroyPcs) ~> (Pc(t) = "idle")


(* ---- joins that fail at the engine and at the response, a leave, a   ---- *)
(* ---- migration of the context (fd 1 -> fd 2) and the group's events  ---- *)
ProgJoin ==
    (1 :> <<Cmd("create_id", 1, 1, 0, FALSE), Cmd("bind", 1, 0, 0, FALSE),
            Cmd("join", 1, 0, 7, TRUE), Cmd("join", 1, 0, 7, FALSE)>>)
    @@ (2 :> <<CmdEngineFails("join", 1, 0, 8), Cmd("leave", 1, 0, 0, FALSE)>>)
    @@ (3 :> <<Cmd("migrate_id", 2, 0, 1, FALSE)>>)
    @@ (11 :> <<Callback("MULTICAST_JOIN"), Callback("MULTICAST_JOIN")>>)
    @@ (12 :> <<Callback("ESTABLISHED")>>)

InitJoin == Boot(ProgJoin)

NextJoin ==
    \/ \E t \in {1, 2, 3} :
         \/ ClientCore(t)
         \/ CmdSteps(t)
         \/ JoinSteps(t)
         \/ LeaveSteps(t)
         \/ MigrateSteps(t)
    \/ \E h \in Handlers :
         \/ HandlerSteps(h)
         \/ mutex_lock_sleep(h)

SpecJoin == InitJoin /\ [][NextJoin]_vars

(* the join of thread u has reserved id i and has not delivered it yet *)
JoinPending(u, i) ==
    /\ Pc(u) \in {"join_engine", "join_resp"}
    /\ mc[thr[u].m].id = i

(* C22: multicast_table holds a group only once its join has delivered the
   id: no join in flight has its group in the table, the entry of a group is
   filled only by the step of its join that delivers the response and returns
   0, and a leave that names an id whose join is still in flight returns
   -ENOENT and changes nothing *)
C22_VisibleAfterDelivery ==
    /\ [](\A i \in McId : \A u \in Clients :
            JoinPending(u, i) => mxa[i].used /\ mxa[i].ptr = 0)
    /\ [][/\ \A i \in McId :
               (mxa[i].ptr = 0 /\ mxa'[i].ptr # 0) =>
                  \E u \in Clients :
                     /\ JoinPending(u, i) /\ Pc(u) = "join_resp"
                     /\ mxa'[i].ptr = thr[u].m
                     /\ thr'[u].pc = "idle" /\ thr'[u].ret = OK
                     /\ thr'[u].er = i
                     /\ ~thr[u].op.fault
          /\ \A t \in Clients :
               (/\ Pc(t) = "leave_find" /\ thr'[t].pc # "leave_find"
                /\ \E u \in Clients : JoinPending(u, thr[t].op.a)) =>
                  /\ thr'[t].pc = "idle" /\ thr'[t].ret = ENOENT
                  /\ UNCHANGED <<ctx, xa, mc, mxa, file, ev, cm>>]_vars

(* a leave was refused with -ENOENT while the join that reserved its id was
   past the engine's join and had not delivered the id *)
C22_LeaveBeforeDelivery ==
    \E t, u \in Clients :
       /\ Pc(t) = "idle" /\ thr[t].ret = ENOENT /\ thr[t].prog = <<>>
       /\ Pc(u) = "join_resp" /\ mc[thr[u].m].id = 0
       /\ mc[thr[u].m].joined


(* the positions of ucma_process_join after ucma_get_ctx_dev *)
JoinPcs == {"join_cs", "join_engine", "join_resp"}

(* the join of thread t returns an error from a position at which its group
   exists *)
JoinFails(t) ==
    /\ Pc(t) \in {"join_engine", "join_resp"}
    /\ thr'[t].pc = "idle"
    /\ thr'[t].ret # OK

(* C23: when a join returns an error after its group was made, the group's
   id is free in multicast_table, the group is on no mc_list, no queued event
   refers to it, it is not joined at the engine, and the reference that
   ucma_get_ctx_dev took is put: the join raised the refcount by one at its
   lookup, left it alone in between and lowers it by one at its return *)
C23_FailedJoinUnwinds ==
    [][\A t \in Clients :
         /\ JoinFails(t) =>
              LET m == thr[t].m
                  c == thr[t].c
              IN
              /\ ~mxa'[mc[m].id].used /\ mxa'[mc[m].id].ptr = 0
              /\ \A d \in CtxPtr : m \notin Range(ctx'[d].mc_list)
              /\ \A f \in Files : \A i \in 1..Len(file'[f].event_list) :
                    ev'[file'[f].event_list[i]].mc # m
              /\ ~mc'[m].joined
              /\ mc'[m].st = "freed"
              /\ ctx'[c].ref = ctx[c].ref - 1
              /\ file'[thr[t].op.f].mut = 0
         /\ (Pc(t) = "join_get" /\ thr'[t].pc = "join_cs") =>
              ctx'[thr'[t].c].ref = ctx[thr'[t].c].ref + 1
         /\ (Pc(t) = "join_get" /\ thr'[t].pc = "idle") => ctx' = ctx
         /\ (Pc(t) \in JoinPcs /\ thr'[t].pc \in JoinPcs \ {Pc(t)}) =>
              ctx'[thr[t].c].ref = ctx[thr[t].c].ref
         /\ (Pc(t) = "join_cs" /\ thr'[t].pc = "idle") =>
              /\ ctx'[thr[t].c].ref = ctx[thr[t].c].ref - 1
              /\ UNCHANGED <<mc, mxa, file>>]_vars


(* ---- a listener, an unclaimed context and a reader against callbacks ---- *)
(* ---- of every kind, two of them without memory for the event         ---- *)
ProgAdmit ==
    (1 :> <<Cmd("create_id", 1, 1, 0, FALSE), Cmd("listen", 1, 0, 1, FALSE)>>)
    @@ (2 :> <<Cmd("create_id", 1, 0, 0, FALSE)>>)
    @@ (3 :> <<Cmd("get_event", 1, 0, 1, FALSE),
               Cmd("get_event", 1, 0, 1, FALSE)>>)
    @@ (11 :> <<Callback("DEVICE_REMOVAL"), Callback("CONNECT_REQUEST"),
                CallbackNoMem("CONNECT_REQUEST")>>)
    @@ (12 :> <<Callback("CONNECT_REQUEST"), Callback("ESTABLISHED"),
                CallbackNoMem("ESTABLISHED")>>)

InitAdmit == Boot(ProgAdmit)

NextAdmit ==
    \/ \E t \in {1, 2, 3} :
         \/ ClientCore(t)
         \/ CmdSteps(t)
         \/ ucma_get_event(t)
    \/ \E h \in Handlers :
         \/ HandlerSteps(h)
         \/ ucma_event_nomem(h)
    \/ WorkerCtxSteps(WorkerOf(1))
    \/ ucma_close_event_id(WorkerOf(1))

SpecAdmit == InitAdmit /\ [][NextAdmit]_vars

(* the callback h passes from its entry to its return value *)
HandlerDecides(h) == Pc(h) = "event_handler" /\ thr'[h].pc # "event_handler"

(* C24: the callback returns non-zero exactly for a connection request that
   finds the backlog of its listener at zero or for which no event could be
   allocated; every other path returns 0, and the value decided is the value
   returned after mutex_unlock *)
C24_RefusalOnlyForConnReq ==
    [][\A h \in Handlers :
         /\ HandlerDecides(h) =>
              (thr'[h].ret # OK <=>
                 /\ thr[h].op.op = "CONNECT_REQUEST"
                 /\ (KzallocFails(h) \/ ctx[thr[h].c].backlog = 0))
         /\ (Pc(h) = "event_unlock" /\ thr'[h].pc = "idle") =>
              thr'[h].ret = thr[h].ret]_vars

(* a connection request was refused for want of memory while its listener
   had backlog left, and the engine destroyed the id it had made for it *)
C24_RefusedWithBacklogLeft ==
    /\ Pc(11) = "idle" /\ thr[11].ret = KzallocRefusal
    /\ \E c \in CtxPtr : ctx[c].listenN > 0 /\ ctx[c].backlog > 0
    /\ \E x \in CmId : cm[x].st = "dead" /\ cm[x].parent # 0

(* C24 as stated: non-zero only when the listener's backlog is zero *)
C24_RefusalOnlyForBacklog ==
    [][\A h \in Handlers :
         HandlerDecides(h) =>
            (thr'[h].ret # OK <=>
               /\ thr[h].op.op = "CONNECT_REQUEST"
               /\ ctx[thr[h].c].backlog = 0)]_vars


(* the event of callback h is not a connection request and its context has
   no uid yet or has another cm_id than the one that reports *)
Ignored(h) ==
    /\ thr[h].op.op # "CONNECT_REQUEST"
    /\ (ctx[thr[h].c].uid = 0 \/ ctx[thr[h].c].cm_id # thr[h].x)

(* q without the queued connection request of cm_id x *)
WithoutConReq(q, x) ==
    SelectSeqBy(q, {e \in EvPtr :
                      ~(ev[e].cm_id = x /\ ev[e].kind = "CONNECT_REQUEST")})

(* C25: the callback of an ignored event makes no event object, returns 0 and
   leaves every event queue as it was; only a device removal among them may
   take the queued connection request of its cm_id off its file's queue, and
   only a device removal touches a context or a workqueue *)
C25_IgnoredNeverQueued ==
    [][\A h \in Handlers :
         (HandlerDecides(h) /\ Ignored(h) /\ ~KzallocFails(h)) =>
            /\ thr'[h].ret = OK
            /\ \A e \in EvPtr : ev'[e].st = ev[e].st
            /\ \A f \in Files :
                 IF thr[h].op.op = "DEVICE_REMOVAL"
                 THEN file'[f].event_list
                         \in {file[f].event_list,
                              WithoutConReq(file[f].event_list, thr[h].x)}
                 ELSE /\ file'[f].event_list = file[f].event_list
                      /\ file'[f].wq = file[f].wq
            /\ thr[h].op.op # "DEVICE_REMOVAL" => ctx' = ctx]_vars

(* an event for a connection that is still a queued connection request is
   dropped, after a device removal for a context without uid was dropped and
   marked that context closing *)
C25_DroppedBoth ==
    /\ Pc(12) = "event_unlock" /\ thr[12].op.op = "ESTABLISHED"
    /\ ctx[thr[12].c].uid # 0 /\ ctx[thr[12].c].cm_id # thr[12].x
    /\ \E e \in Range(file[1].event_list) :
          ev[e].cm_id = thr[12].x /\ ev[e].kind = "CONNECT_REQUEST"
    /\ \E c \in CtxPtr :
          ctx[c].st = "live" /\ ctx[c].uid = 0 /\ ctx[c].closing = 1
    /\ \A e \in EvPtr : ev[e].kind \notin {"ESTABLISHED", "DEVICE_REMOVAL"}


(* ---- removals of a listener's cm_id and of a connection request not  ---- *)
(* ---- yet read, against the read and the destroy of the listener      ---- *)
ProgRemoval ==
    (1 :> <<Cmd("create_id", 1, 1, 0, FALSE), Cmd("listen", 1, 0, 1, FALSE),
            Cmd("destroy_id", 1, 0, 0, FALSE)>>)
    @@ (3 :> <<Cmd("get_event", 1, 0, 1, FALSE)>>)
    @@ (11 :> <<Callback("CONNECT_REQUEST"), Callback("DEVICE_REMOVAL")>>)
    @@ (12 :> <<Callback("DEVICE_REMOVAL")>>)

InitRemoval == Boot(ProgRemoval)

NextRemoval ==
    \/ \E t \in {1, 3} :
         \/ ClientCore(t)
         \/ CmdSteps(t)
         \/ ucma_get_event(t)
         \/ DestroySteps(t)
         \/ TeardownSteps(t)
    \/ \E h \in Handlers : HandlerSteps(h)
    \/ WorkerCtxSteps(WorkerOf(1))
    \/ ucma_close_event_id(WorkerOf(1))
    \/ FlushWaitSteps

SpecRemoval == InitRemoval /\ [][NextRemoval]_vars

(* the callback h of a device removal runs ucma_removal_event_handler *)
RemovalRuns(h) ==
    /\ HandlerDecides(h) /\ thr'[h].pc = "event_unlock"
    /\ thr[h].op.op = "DEVICE_REMOVAL"

(* ctx = cm_id->context as ucma_removal_event_handler reads it *)
RemovalContext(h) == cm[thr[h].x].context

(* the work items of q that close context c *)
CloseWorkOf(q, c) == {i \in 1..Len(q) : q[i] = [k |-> "ctx", p |-> c]}

(* what C26 says of a removal for the cm_id the context owns *)
OwnedRemoval(h) ==
    LET c == RemovalContext(h)
        f == ctx[c].file
    IN
    /\ ctx'[c].closing = 1
    /\ Cardinality(CloseWorkOf(file'[f].wq, c)) = 1
    /\ Len(file'[f].wq) = Len(file[f].wq) + 1

(* what C26 says of a removal for the cm_id of a queued connection request *)
UnadoptedRemoval(h) ==
    LET c == RemovalContext(h)
        f == ctx[c].file
    IN
    /\ \E e \in Range(file[f].event_list) :
         /\ ev[e].cm_id = thr[h].x /\ ev[e].kind = "CONNECT_REQUEST"
         /\ file'[f].event_list = SelectSeqBy(file[f].event_list, EvPtr \ {e})
         /\ Len(file'[f].event_list) = Len(file[f].event_list) - 1
         /\ file'[f].wq = Append(file[f].wq, [k |-> "ev", p |-> e])
    /\ ctx' = ctx

(* the queue holds the connection request of the cm_id that reports *)
ConReqQueued(h) ==
    \E e \in Range(file[ctx[RemovalContext(h)].file].event_list) :
       ev[e].cm_id = thr[h].x /\ ev[e].kind = "CONNECT_REQUEST"

(* C26: unless the context is marked destroying, a removal for the cm_id the
   context owns sets closing and queues the one close work of the context,
   and a removal for the cm_id of a queued connection request takes exactly
   that event off the queue and queues its release, the context staying as it
   is; for a context marked destroying the removal changes neither the
   closing flag nor the workqueue *)
C26_RemovalPaths ==
    [][\A h \in Handlers :
         RemovalRuns(h) =>
            LET c == RemovalContext(h) IN
            IF ctx[c].destroying = 1
            THEN /\ ctx'[c].closing = ctx[c].closing
                 /\ file'[ctx[c].file].wq = file[ctx[c].file].wq
            ELSE IF ctx[c].cm_id = thr[h].x THEN OwnedRemoval(h)
            ELSE ConReqQueued(h) => UnadoptedRemoval(h)]_vars

(* both removals were handled: the listener is closing with its close work
   queued or running, and the connection request of another cm_id went from
   the queue to the workqueue *)
C26_BothRemovalsSeen ==
    \E c \in CtxPtr : \E e \in EvPtr :
       /\ ctx[c].st = "live" /\ ctx[c].closing = 1 /\ ctx[c].destroying = 0
       /\ ev[e].ctx = c /\ ev[e].out = "removal"
       /\ ev[e].cm_id # ctx[c].cm_id

(* C26 as stated: the two paths whatever the state of the context *)
C26_RemovalPathsAlways ==
    [][\A h \in Handlers :
         RemovalRuns(h) =>
            IF ctx[RemovalContext(h)].cm_id = thr[h].x THEN OwnedRemoval(h)
            ELSE ConReqQueued(h) => UnadoptedRemoval(h)]_vars


(* the read of thread t delivers the connection request e and returns 0 *)
DeliversConReq(t, e) ==
    /\ Pc(t) = "get_event" /\ thr'[t].pc = "idle" /\ thr'[t].ret = OK
    /\ file[thr[t].op.f].event_list # <<>>
    /\ e = NextEvent(file[thr[t].op.f].event_list)
    /\ ev[e].kind = "CONNECT_REQUEST"

(* C27: a read that delivers a connection request registers one new context
   on the reading file: live, refcount 1, under a fresh id in ctx_table, on
   the file's ctx_list, the id answered; the cm_id of the event is the new
   context's cm_id and of no other context that is not freed and of no queued
   event, and the backlog of the listener is one higher *)
C27_AdoptionOnRead ==
    [][\A t \in Clients : \A e \in EvPtr :
         DeliversConReq(t, e) =>
            LET n == thr'[t].c
                f == thr[t].op.f
                x == ev[e].cm_id
            IN
            /\ n \in CtxPtr /\ ctx[n].st = "none"
            /\ ctx'[n].st = "live" /\ ctx'[n].ref = 1 /\ ctx'[n].file = f
            /\ xa[ctx'[n].id] = 0 /\ xa'[ctx'[n].id] = n
            /\ file'[f].ctx_list = Append(file[f].ctx_list, n)
            /\ ctx'[n].cm_id = x /\ cm'[x].context = n
            /\ \A d \in CtxPtr \ {n} :
                  ctx'[d].st = "live" => ctx'[d].cm_id # x
            /\ \A g \in Files : \A i \in 1..Len(file'[g].event_list) :
                  ev'[file'[g].event_list[i]].cm_id # x
            /\ ctx'[ev[e].ctx].backlog = ctx[ev[e].ctx].backlog + 1
            /\ \A d \in CtxPtr \ {n, ev[e].ctx} : ctx'[d] = ctx[d]]_vars


(* ---- one file: a bound, listening context with a group; a group event ---- *)
(* ---- and a connection request are read with a short buffer, a faulting ---- *)
(* ---- buffer, a good buffer, and while no context can be allocated      ---- *)
ProgRead ==
    (1 :> <<Cmd("create_id", 1, 1, 0, FALSE), Cmd("bind", 1, 0, 0, FALSE),
            Cmd("listen", 1, 0, 1, FALSE), Cmd("join", 1, 0, 7, FALSE)>>)
    @@ (2 :> <<Cmd("get_event", 1, 0, 1, TRUE), Cmd("get_event", 1, 0, 1, FALSE),
               Cmd("get_event", 1, 1, 1, FALSE)>>)
    @@ (3 :> <<Cmd("create_id", 1, 2, 0, FALSE), Cmd("create_id", 1, 3, 0, FALSE),
               Cmd("get_event", 1, 0, 1, FALSE)>>)
    @@ (11 :> <<Callback("MULTICAST_JOIN"), Callback("CONNECT_REQUEST")>>)
    @@ (12 :> <<Callback("ESTABLISHED")>>)

InitRead == Boot(ProgRead)

NextRead ==
    \/ \E t \in {1, 2, 3} :
         \/ ClientCore(t)
         \/ CmdSteps(t)
         \/ JoinSteps(t)
         \/ ucma_get_event(t)
    \/ \E h \in Handlers : HandlerSteps(h)

SpecRead == InitRead /\ [][NextRead]_vars

(* thread t returns from ucma_get_event in this step *)
ReadReturns(t) ==
    /\ thr[t].op.op = "get_event"
    /\ Pc(t) = "get_event"
    /\ thr'[t].pc = "idle"

(* the step is a successful read, by some thread, of the event e at the head
   of its file's queue *)
DeliveredBy(e) ==
    \E t \in Clients :
        /\ ReadReturns(t)
        /\ thr'[t].ret = OK
        /\ file[thr[t].op.f].event_list # <<>>
        /\ e = Head(file[thr[t].op.f].event_list)

(* C28: events_reported of a context, and of a group, changes only in a
   step in which ucma_get_event returns 0 for an event of that context (of
   that group), and then by exactly one; a ucma_get_event that returns
   -ENOSPC, -EFAULT or -ENOMEM leaves the event list of its file as it was,
   the unread event still at its head, and every events_reported counter
   of every context and group unchanged *)
C28_CountOnlyOnDelivery ==
    [][/\ \A c \in CtxPtr :
            ctx'[c].events_reported # ctx[c].events_reported
            => /\ ctx'[c].events_reported = ctx[c].events_reported + 1
               /\ \E e \in EvPtr : DeliveredBy(e) /\ ev[e].ctx = c
       /\ \A m \in McPtr :
            mc'[m].events_reported # mc[m].events_reported
            => /\ mc'[m].events_reported = mc[m].events_reported + 1
               /\ \E e \in EvPtr : DeliveredBy(e) /\ ev[e].mc = m
       /\ \A t \in Clients :
            ReadReturns(t) /\ thr'[t].ret \in {ENOSPC, EFAULT, ENOMEM}
            => /\ file'[thr[t].op.f].event_list = file[thr[t].op.f].event_list
               /\ \A e \in Range(file[thr[t].op.f].event_list) :
                     ev'[e].st = ev[e].st
               /\ \A c \in CtxPtr :
                     ctx'[c].events_reported = ctx[c].events_reported
               /\ \A m \in McPtr :
                     mc'[m].events_reported = mc[m].events_reported]_vars

(* the group event was read once after a faulting read of it; then a read
   with no context left to allocate returned -ENOMEM and a read with a short
   buffer returned -ENOSPC, and the connection request is still at the head
   of the queue with the counters at one *)
C28_FailedReadsKeepHead ==
    /\ Pc(2) = "idle" /\ thr[2].prog = <<>> /\ thr[2].ret = ENOSPC
    /\ Pc(3) = "idle" /\ thr[3].prog = <<>> /\ thr[3].ret = ENOMEM
    /\ file[1].event_list # <<>>
    /\ ev[Head(file[1].event_list)].kind = "CONNECT_REQUEST"
    /\ \E c \in CtxPtr : ctx[c].st = "live" /\ ctx[c].events_reported = 1
    /\ \E m \in McPtr : mc[m].st = "live" /\ mc[m].events_reported = 1


(* ---- two files: a context of file 1 with queued events is migrated ---- *)
(* ---- from file 1 to file 1 while another client migrates it to     ---- *)
(* ---- file 2 and a third reads an event                             ---- *)
ProgSelf ==
    (1 :> <<Cmd("create_id", 1, 1, 0, FALSE), Cmd("migrate_id", 1, 0, 1, FALSE),
            Cmd("migrate_id", 1, 0, 1, TRUE)>>)
    @@ (2 :> <<Cmd("migrate_id", 2, 0, 1, FALSE)>>)
    @@ (3 :> <<Cmd("create_id", 1, 2, 0, FALSE), Cmd("get_event", 1, 0, 1, FALSE)>>)
    @@ (11 :> <<Callback("ESTABLISHED"), Callback("DISCONNECTED")>>)
    @@ (12 :> <<Callback("ESTABLISHED")>>)

InitSelf == Boot(ProgSelf)

NextSelf ==
    \/ \E t \in {1, 2, 3} :
         \/ ClientCore(t)
         \/ MigrateSteps(t)
         \/ ucma_get_event(t)
    \/ \E h \in Handlers : HandlerSteps(h)

SpecSelf == InitSelf /\ [][NextSelf]_vars

(* thread t runs a MIGRATE_ID whose cmd.fd is the file it was written to *)
SelfMigration(t) ==
    /\ thr[t].op.op = "migrate_id"
    /\ thr[t].op.b = thr[t].op.f
    /\ Pc(t) \in MigratePcs \cup {"migrate_get"}

(* thread t takes a step of its command *)
StepOf(t) == thr'[t].pc # Pc(t)

(* C29: no step of a MIGRATE_ID whose cmd.fd is the file written to changes
   the ctx_list or the event_list of any file, the file of any context or
   ctx_table; the only changes of the refcount of its context by the command
   are the increment of its lookup and the decrement at its end, and when it
   returns 0 the events_reported it answers is the one it read from the
   context under the mutex of the file *)
C29_SelfMigrationNoOp ==
    [][\A t \in Clients :
          SelfMigration(t) /\ StepOf(t)
          => /\ \A f \in Files :
                   /\ file'[f].ctx_list = file[f].ctx_list
                   /\ file'[f].event_list = file[f].event_list
             /\ \A c \in CtxPtr : ctx'[c].file = ctx[c].file
             /\ xa' = xa
             /\ (Pc(t) = "migrate_get" /\ thr'[t].pc # "idle")
                   => ctx'[thr'[t].c].ref = ctx[thr'[t].c].ref + 1
             /\ Pc(t) = "migrate_lock1"
                   => /\ thr'[t].pc = "migrate_resp"
                      /\ thr'[t].er = ctx[thr[t].c].events_reported
                      /\ ctx' = ctx
             /\ Pc(t) = "migrate_resp"
                   => /\ ctx'[thr[t].c].ref = ctx[thr[t].c].ref - 1
                      /\ thr'[t].pc = "idle"
                      /\ thr'[t].er = thr[t].er
             /\ Pc(t) \notin {"migrate_get", "migrate_resp"} => ctx' = ctx]_vars


(* C30: in every reachable state, no ctx_list or event_list of a file has
   been changed by a thread that did not hold the mutex of that file at the
   change (list_add_tail in ucma_event_handler, list_del, list_move_tail and
   the walks that unlink events included), and no mutex_unlock of a file
   mutex has been executed by a thread other than the one that locked it,
   while callbacks of a context interleave with ucma_migrate_id of it *)
C30_ListsUnderOwnMutex == ~gh.unlocked /\ ~gh.wrongunlock


(* the event objects that the step attaches to a queue *)
Attached == {e \in EvPtr : ev[e].st = "none" /\ ev'[e].st = "live"}

(* the step adds a close work of context c to some workqueue *)
SchedulesClose(c) ==
    \E f \in Files :
        Cardinality(CloseWorkOf(file'[f].wq, c))
            > Cardinality(CloseWorkOf(file[f].wq, c))

(* C31 as stated: no step attaches an event of a context that is marked
   destroying, and no step queues the close work of such a context *)
C31_NoAttachAfterDestroying ==
    [][/\ \A e \in Attached : ctx[ev'[e].ctx].destroying = 0
       /\ \A c \in CtxPtr :
            ctx[c].destroying = 1 => ~SchedulesClose(c)]_vars

(* C31: a removal for a context marked destroying queues no close work and
   leaves closing as it is; an event is attached only for a context whose
   own cm_id has not been released by rdma_destroy_id, so events may still
   be queued between the mark and that release, and none after it *)
C31_NoCloseWorkAfterDestroying ==
    [][/\ \A c \in CtxPtr :
            ctx[c].destroying = 1
            => /\ ~SchedulesClose(c)
               /\ ctx'[c].closing = ctx[c].closing
       /\ \A e \in Attached :
            /\ ctx[ev'[e].ctx].st = "live"
            /\ cm[ctx[ev'[e].ctx].cm_id].st = "live"]_vars

(* a removal callback ran after the mark: its event is on the queue of the
   file for the destroying context, which is not closing, and no close work
   was queued *)
C31_RemovalAfterMark ==
    \E h \in Handlers :
        /\ Pc(h) = "event_unlock"
        /\ thr[h].op.op = "DEVICE_REMOVAL"
        /\ ctx[thr[h].c].destroying = 1
        /\ ctx[thr[h].c].closing = 0
        /\ ctx[thr[h].c].cm_id = thr[h].x
        /\ \A f \in Files : file[f].wq = <<>>
        /\ \E e \in Range(file[ctx[thr[h].c].file].event_list) :
             ev[e].kind = "DEVICE_REMOVAL" /\ ev[e].ctx = thr[h].c


(* the close work of context c is pending on a workqueue or running in a
   worker (ucma_close_id has not returned) *)
CloseWorkPending(c) ==
    \/ \E f \in Files : CloseWorkOf(file[f].wq, c) # {}
    \/ \E w \in Workers :
         Pc(w) \in {"close_id", "close_id_wait", "close_id_rdma"} /\ thr[w].c = c

(* thread t is inside ucma_free_ctx for context c *)
InFreeCtx(t, c) ==
    Pc(t) \in {"free_mc", "free_events", "free_release"} /\ thr[t].c = c

(* C32: no close work of a freed context is queued or running, and whenever
   ucma_destroy_id or ucma_close is inside ucma_free_ctx for a context that
   is closing, the close work of the context is neither queued nor running
   and rdma_destroy_id of its cm_id has been executed *)
C32_CloseWorkBeforeFree ==
    \A c \in CtxPtr :
        /\ ctx[c].st = "freed" => ~CloseWorkPending(c)
        /\ \A t \in Clients :
             InFreeCtx(t, c) /\ ctx[c].closing = 1
             => /\ ~CloseWorkPending(c)
                /\ ctx[c].cm_id # 0 => cm[ctx[c].cm_id].destroys >= 1


(* C33: for a listening context whose backlog was set to N, ctx->backlog
   plus the number of its admitted connection requests still on the queue
   is N, and ctx->backlog is between 0 and N *)
C33_BacklogConserved ==
    \A c \in CtxPtr :
        ctx[c].st = "live" /\ ctx[c].listenN > 0 =>
            /\ ctx[c].backlog + Cardinality(Unaccepted(c)) = ctx[c].listenN
            /\ ctx[c].backlog >= 0
            /\ ctx[c].backlog <= ctx[c].listenN


(* ---- two files: commands under ctx->mutex, a migration, callbacks, ---- *)
(* ---- the close worker and the explicit destroy of one context       ---- *)
ProgOrder ==
    (1 :> <<Cmd("create_id", 1, 1, 0, FALSE), Cmd("bind", 1, 0, 0, FALSE),
            Cmd("destroy_id", 1, 0, 0, FALSE)>>)
    @@ (2 :> <<Cmd("migrate_id", 2, 0, 1, FALSE)>>)
    @@ (3 :> <<Cmd("listen", 1, 0, 1, FALSE)>>)
    @@ (11 :> <<Callback("ESTABLISHED")>>)
    @@ (12 :> <<Callback("DEVICE_REMOVAL")>>)

InitOrder == Boot(ProgOrder)

NextOrder ==
    \/ \E t \in {1, 2, 3} :
         \/ ClientCore(t)
         \/ CmdSteps(t)
         \/ MigrateSteps(t)
         \/ DestroySteps(t)
         \/ TeardownSteps(t)
    \/ \E h \in Handlers : HandlerSteps(h)
    \/ \E w \in Workers : WorkerCtxSteps(w)
    \/ FlushWaitSteps
    \/ \E t \in Threads : mutex_lock_sleep(t)

SpecOrder == InitOrder /\ [][NextOrder]_vars

(* the file whose mutex thread t is about to take in mutex_lock, or 0 *)
WantsFileMut(t) ==
    IF Pc(t) \in CsPcs /\ thr[t].c # 0 THEN LockedFile(t, thr[t].c)
    ELSE IF Pc(t) \in {"create_id", "join_cs", "close_next"} THEN thr[t].op.f
    ELSE IF Pc(t) = "get_event" /\ ~OutLenTooSmall(thr[t].op) THEN thr[t].op.f
    ELSE IF Pc(t) = "migrate_lock1"
         THEN (IF thr[t].x = thr[t].op.f THEN thr[t].x
               ELSE FirstLocked(thr[t].x, thr[t].op.f))
    ELSE IF Pc(t) = "migrate_lock2" THEN SecondLocked(thr[t].x, thr[t].op.f)
    ELSE 0

(* the context whose mutex thread t is about to take, or 0 *)
WantsCtxMutex(t) ==
    IF Pc(t) \in {"cmd_call", "join_engine", "leave_engine"} THEN thr[t].c ELSE 0

(* the cm_ids whose rdma_destroy_id thread t is about to call *)
WantsDestroy(t) ==
    IF Pc(t) \in {"td_rdma", "close_id_rdma"} /\ thr[t].c # 0
    THEN {ctx[thr[t].c].cm_id} \ {0}
    ELSE IF Pc(t) = "close_event_id" THEN {ev[thr[t].m].cm_id} \ {0}
    ELSE IF Pc(t) = "free_release" THEN ConReqIds(thr[t].lst)
    ELSE {}

(* thread t cannot go on before thread u does: u holds the mutex t sleeps
   on, u holds a reference of the context whose completion t waits for, u
   runs the callback that rdma_destroy_id waits for, or u is the worker
   whose workqueue t flushes *)
WaitsFor(t, u) ==
    /\ t # u
    /\ \/ WantsFileMut(t) # 0 /\ file[WantsFileMut(t)].mut = u
       \/ WantsCtxMutex(t) # 0 /\ ctx[WantsCtxMutex(t)].mutex = u
       \/ /\ Pc(t) \in {"td_wait", "close_id_wait"}
          /\ ctx[thr[t].c].done = 0
          /\ Holds(u, thr[t].c)
       \/ \E x \in WantsDestroy(t) : cm[x].hnd = u
       \/ /\ Pc(t) = "td_flush_wait"
          /\ file[thr[t].x].wdone < thr[t].tgt
          /\ u = WorkerOf(thr[t].x)

RECURSIVE WaitClosure(_)
WaitClosure(S) ==
    LET N == S \cup {u \in Threads : \E t \in S : WaitsFor(t, u)}
    IN IF N = S THEN S ELSE WaitClosure(N)

(* t is on a cycle of threads each of which waits for the next *)
InWaitCycle(t) == \E u \in Threads : WaitsFor(t, u) /\ t \in WaitClosure({u})

(* the file mutexes thread t holds *)
HeldFiles(t) == {f \in Files : file[f].mut = t}

(* C34: a step in which a thread takes a file mutex is made by a thread
   that holds no ctx->mutex; a step that calls rdma_destroy_id, and every
   state in which a thread waits for the completion of a context or is
   about to call rdma_destroy_id, finds that thread holding no file mutex;
   and no thread is on a cycle of waiting threads.  (ctx_table's and
   multicast_table's xa_lock are taken and dropped inside one step each, in
   which no mutex is taken after them.) *)
C34_LockOrder ==
    /\ [][\A t \in Threads :
            /\ (\E f \in Files : file[f].mut # t /\ file'[f].mut = t)
                 => \A c \in CtxPtr : ctx[c].mutex # t
            /\ (\E x \in CmId : cm'[x].destroys > cm[x].destroys
                                   /\ x \in WantsDestroy(t))
                 => HeldFiles(t) = {}]_vars
    /\ [](\A t \in Threads :
            /\ (Pc(t) \in {"td_wait", "close_id_wait"} \/ WantsDestroy(t) # {})
                 => HeldFiles(t) = {}
            /\ ~InWaitCycle(t))


(* no command holds a reference of context c and no teardown of c has begun *)
Quiescent(c) ==
    /\ ctx[c].st = "live"
    /\ ctx[c].closing = 0
    /\ ctx[c].destroying = 0
    /\ \A t \in Threads : Pc(t) = "idle" \/ thr[t].c # c

(* C35: the refcount of a context is never decremented below zero (a
   refcount_t that was saturates), and a live context that is neither
   closing nor being destroyed and on which no command is in flight has
   refcount 1: every ucma_get_ctx was matched by one ucma_put_ctx *)
C35_RefcountBalanced ==
    \A c \in CtxPtr :
        /\ ctx[c].st # "none" =>
              ctx[c].ref >= 0 /\ ctx[c].ref # REFCOUNT_SATURATED
        /\ Quiescent(c) => ctx[c].ref = 1


(* ---- one file: a listener with a group; a group event, a connection ---- *)
(* ---- request and a device removal are read by two readers while the ---- *)
(* ---- group is left, the context destroyed and the file closed       ---- *)
ProgOnce ==
    (1 :> <<Cmd("create_id", 1, 1, 0, FALSE), Cmd("bind", 1, 0, 0, FALSE),
            Cmd("listen", 1, 0, 1, FALSE), Cmd("join", 1, 0, 7, FALSE),
            Cmd("leave", 1, 0, 0, FALSE)>>)
    @@ (2 :> <<Cmd("get_event", 1, 0, 1, FALSE), Cmd("close", 1, 0, 0, FALSE)>>)
    @@ (3 :> <<Cmd("get_event", 1, 0, 1, FALSE), Cmd("destroy_id", 1, 0, 0, FALSE)>>)
    @@ (11 :> <<Callback("MULTICAST_JOIN"), Callback("CONNECT_REQUEST")>>)
    @@ (12 :> <<Callback("MULTICAST_JOIN"), Callback("DEVICE_REMOVAL")>>)

InitOnce == Boot(ProgOnce)

NextOnce ==
    \/ \E t \in {1, 2, 3} :
         \/ ClientCore(t)
         \/ CmdSteps(t)
         \/ JoinSteps(t)
         \/ LeaveSteps(t)
         \/ ucma_get_event(t)
         \/ ucma_get_event_oops(t)
         \/ DestroySteps(t)
         \/ CloseSteps(t)
         \/ TeardownSteps(t)
    \/ \E h \in Handlers : HandlerSteps(h)
    \/ WorkerCtxSteps(WorkerOf(1))
    \/ ucma_close_event_id(WorkerOf(1))
    \/ FlushWaitSteps

SpecOnce == InitOnce /\ [][NextOnce]_vars

(* how often event e stands on the event lists fl of the files *)
TimesQueued(fl, e) ==
    Cardinality({<<f, i>> \in Files \X (1..MaxEvents) :
                    i <= Len(fl[f].event_list) /\ fl[f].event_list[i] = e})

(* the threads that hold event e on the private list of ucma_free_ctx *)
Collectors(th, e) == {t \in Clients : e \in Range(th[t].lst)}

(* the step is a successful ucma_get_event of exactly one thread for e *)
ReadOnce(e) == Cardinality({t \in Clients :
                   /\ ReadReturns(t) /\ thr'[t].ret = OK
                   /\ file[thr[t].op.f].event_list # <<>>
                   /\ Head(file[thr[t].op.f].event_list) = e}) = 1

(* C36: an event stands at most once on the queues; it enters a queue only
   when the callback allocates it and never again; the step that takes it
   off is exactly one of a successful ucma_get_event of one reader (the
   event is delivered and freed), the collection by one ucma_free_ctx of a
   destroy or a close, ucma_cleanup_mc_events of a leave or of a failed
   join, or the removal handler; an event that got one of these outcomes is
   on no queue and never gets another one, and a freed event is never
   delivered, collected or freed again *)
C36_LeavesQueueOnce ==
    /\ [](\A e \in EvPtr :
            /\ TimesQueued(file, e) <= 1
            /\ Cardinality(Collectors(thr, e)) <= 1
            /\ ev[e].out # "" => TimesQueued(file, e) = 0
            /\ ev[e].st = "freed" =>
                  TimesQueued(file, e) = 0 /\ Collectors(thr, e) = {}
            /\ Collectors(thr, e) # {} => TimesQueued(file, e) = 0)
    /\ [][\A e \in EvPtr :
            /\ (TimesQueued(file, e) = 0 /\ TimesQueued(file', e) > 0)
                  => ev[e].st = "none"
            /\ ev[e].out # "" => ev'[e].out = ev[e].out
            /\ ev[e].st = "freed" => ev'[e].st = "freed"
            /\ (TimesQueued(file, e) = 1 /\ TimesQueued(file', e) = 0)
                  => \/ ev'[e].out = "read" /\ ev'[e].st = "freed" /\ ReadOnce(e)
                     \/ /\ ev'[e].out = ""
                        /\ Cardinality(Collectors(thr', e)) = 1
                        /\ Collectors(thr, e) = {}
                     \/ ev'[e].out = "leave" /\ ev'[e].st = "freed"
                     \/ ev'[e].out = "removal"
            /\ (ev[e].out = "" /\ ev'[e].out = "destroy")
                  => Cardinality(Collectors(thr, e)) = 1]_vars

(* one event was delivered, one was taken by the removal handler and one
   was discarded by a leave, a destroy or a close *)
C36_AllWaysOut ==
    \E e1, e2, e3 \in EvPtr :
        /\ ev[e1].out = "read"
        /\ ev[e2].out = "removal"
        /\ ev[e3].out \in {"leave", "destroy"}

=============================================================================
